---- MODULE Spec2Model ----
(***************************************************************************)
(* A model of the modal-operator control plane: the admission mutator      *)
(* (webhook_controller.py), the pod interception handlers and the three    *)
(* custom-resource reconcilers (operator.py), the backend client           *)
(* (modal_job_controller.py), the status synchronizer (status_sync.py),    *)
(* the SOCKS5 proxy (proxy.py), the HTTP gateway (tunnel/main.py), the    *)
(* log streamer (docker/modal-logger/logger.py), the metrics collector     *)
(* (metrics.py) and the TrainJob controller (trainjob_controller.py).      *)
(*                                                                         *)
(* Kubernetes objects are records; a Python dict whose keys may be absent  *)
(* is a function whose DOMAIN holds the keys present.  The text of an env  *)
(* value is a sequence of tokens, so that json.dumps and json.loads are a  *)
(* printer and a parser and not the identity.                              *)
(***************************************************************************)
EXTENDS Integers, Sequences, FiniteSets, TLC

(***************************************************************************)
(* Bounds of the model.                                                    *)
(***************************************************************************)
MaxReplicas == 2      \* replicas of a ModalJob range over 0..MaxReplicas
MaxAttempts == 2      \* kopf retries of a failing handler that are followed

(***************************************************************************)
(* Python values, as far as the handlers look at them.                     *)
(***************************************************************************)
NONE == "<None>"

PyStr(s)      == [ty |-> "str",  s |-> s,  n |-> 0, items |-> <<>>]
PyBool(b)     == [ty |-> "bool", s |-> IF b THEN "true" ELSE "false", n |-> 0, items |-> <<>>]
PyInt(n)      == [ty |-> "int",  s |-> "", n |-> n, items |-> <<>>]
PyNone        == [ty |-> "null", s |-> "", n |-> 0, items |-> <<>>]
PyList(items) == [ty |-> "list", s |-> "", n |-> 0, items |-> items]
\* a dict is its items in insertion order, a pair being [key, <<value>>]
PyPair(k, v)  == [ty |-> "pair", s |-> k,  n |-> 0, items |-> <<v>>]
PyDict(pairs) == [ty |-> "dict", s |-> "", n |-> 0, items |-> pairs]
PyError(kind) == [ty |-> "error", s |-> kind, n |-> 0, items |-> <<>>]

IsError(v) == v.ty = "error"

\* str-or-None of the model as a Python value
PyOpt(s) == IF s = NONE THEN PyNone ELSE PyStr(s)
PyStrList(seq) == PyList([i \in 1..Len(seq) |-> PyStr(seq[i])])

\* bool(v)
Truthy(v) ==
    CASE v.ty = "bool" -> v.s = "true"
      [] v.ty = "null" -> FALSE
      [] v.ty = "str"  -> v.s # ""
      [] v.ty = "int"  -> v.n # 0
      [] OTHER         -> Len(v.items) > 0

\* v[0]; the handlers apply it to the values json.loads returned
Subscript0(v) ==
    CASE v.ty = "list" -> IF Len(v.items) = 0 THEN PyError("IndexError") ELSE v.items[1]
      [] v.ty = "dict" -> PyError("KeyError")
      [] OTHER         -> PyError("TypeError")

(***************************************************************************)
(* JSON text.  A text is a sequence of tokens; a text that is no JSON      *)
(* document (a pod name, a URL) is the single token raw.                   *)
(***************************************************************************)
Tok(t, v) == [t |-> t, v |-> v]
StrT(s)   == Tok("str", s)

\* the text of a plain Python string s
Text(s) ==
    IF s \in {"true", "false", "null"} THEN <<Tok(s, s)>> ELSE <<Tok("raw", s)>>

RECURSIVE Dumps(_)
RECURSIVE DumpItems(_, _)
DumpItems(items, i) ==
    IF i > Len(items) THEN <<>>
    ELSE (IF i > 1 THEN <<Tok(",", "")>> ELSE <<>>)
         \o (IF items[i].ty = "pair"
             THEN <<StrT(items[i].s), Tok(":", "")>> \o Dumps(items[i].items[1])
             ELSE Dumps(items[i]))
         \o DumpItems(items, i + 1)

\* json.dumps
Dumps(v) ==
    CASE v.ty = "str"  -> <<StrT(v.s)>>
      [] v.ty = "bool" -> <<Tok(v.s, v.s)>>
      [] v.ty = "null" -> <<Tok("null", "null")>>
      [] v.ty = "list" -> <<Tok("[", "")>> \o DumpItems(v.items, 1) \o <<Tok("]", "")>>
      [] v.ty = "dict" -> <<Tok("{", "")>> \o DumpItems(v.items, 1) \o <<Tok("}", "")>>

ParseFail == [ok |-> FALSE, val |-> PyError("JSONDecodeError"), next |-> 0]
ParseOk(v, n) == [ok |-> TRUE, val |-> v, next |-> n]

\* A value that is used more than once is bound by a quantifier, so that it
\* is computed once.
RECURSIVE ParseValue(_, _)
RECURSIVE ParseList(_, _, _)
RECURSIVE ParseDict(_, _, _)

\* the list, after its element r was parsed
ListAfter(t, acc, r) ==
    IF ~r.ok \/ r.next > Len(t) THEN ParseFail
    ELSE IF t[r.next].t = "," THEN ParseList(t, r.next + 1, Append(acc, r.val))
    ELSE IF t[r.next].t = "]" THEN ParseOk(PyList(Append(acc, r.val)), r.next + 1)
    ELSE ParseFail

ParseList(t, i, acc) ==
    IF i > Len(t) THEN ParseFail
    ELSE IF t[i].t = "]" /\ Len(acc) = 0 THEN ParseOk(PyList(acc), i + 1)
    ELSE CHOOSE out \in {ListAfter(t, a, r) : a \in {acc}, r \in {ParseValue(t, i)}} : TRUE

\* the dict, after the value r of its key k was parsed
DictAfter(t, acc, k, r) ==
    IF ~r.ok \/ r.next > Len(t) THEN ParseFail
    ELSE IF t[r.next].t = "," THEN ParseDict(t, r.next + 1, Append(acc, PyPair(k, r.val)))
    ELSE IF t[r.next].t = "}" THEN ParseOk(PyDict(Append(acc, PyPair(k, r.val))), r.next + 1)
    ELSE ParseFail

ParseDict(t, i, acc) ==
    IF i > Len(t) THEN ParseFail
    ELSE IF t[i].t = "}" /\ Len(acc) = 0 THEN ParseOk(PyDict(acc), i + 1)
    ELSE IF t[i].t # "str" \/ i + 1 > Len(t) THEN ParseFail
    ELSE IF t[i + 1].t # ":" THEN ParseFail
    ELSE CHOOSE out \in {DictAfter(t, a, t[i].v, r) :
                            a \in {acc}, r \in {ParseValue(t, i + 2)}} : TRUE

ParseValue(t, i) ==
    IF i > Len(t) THEN ParseFail
    ELSE CASE t[i].t = "str"   -> ParseOk(PyStr(t[i].v), i + 1)
           [] t[i].t = "true"  -> ParseOk(PyBool(TRUE), i + 1)
           [] t[i].t = "false" -> ParseOk(PyBool(FALSE), i + 1)
           [] t[i].t = "null"  -> ParseOk(PyNone, i + 1)
           [] t[i].t = "["     -> ParseList(t, i + 1, <<>>)
           [] t[i].t = "{"     -> ParseDict(t, i + 1, <<>>)
           [] OTHER            -> ParseFail

\* the document, when the whole text was read
WholeText(t, r) ==
    IF r.ok /\ r.next = Len(t) + 1 THEN r.val ELSE PyError("JSONDecodeError")

\* json.loads
Loads(text) ==
    CHOOSE out \in {WholeText(t, ParseValue(t, 1)) : t \in {text}} : TRUE


(***************************************************************************)
(* Dicts with optional keys.                                               *)
(***************************************************************************)
Has(d, k)      == k \in DOMAIN d
Get(d, k, dflt) == IF k \in DOMAIN d THEN d[k] ELSE dflt
Put(d, k, v)   == (k :> v) @@ d

AnnMutated      == "modal-operator.io/mutated"
AnnOffload      == "modal-operator.io/offload"
AnnUseModal     == "modal-operator.io/use-modal"
AnnTunnel       == "modal-operator.io/tunnel-enabled"
AnnNetworking   == "modal-operator.io/original-networking"
AnnWorkloadType == "modal-operator.io/workload-type"
LblWorkloadType == "modal-operator.io/workload-type"
LblTunnelPod    == "modal-operator.io/tunnel-pod"
LblOriginalPod  == "modal-operator.io/original-pod"
AnnOriginalImage == "modal-operator.io/original-image"

OperatorImage == "ghcr.io/solanyn/modal-operator:latest"

\* str.__add__, f"{name}-modal"
ModalName(name) == name \o "-modal"

(***************************************************************************)
(* Pods as the user submits them.                                          *)
(***************************************************************************)
PodNames == {"p1"}

EnvVar(n, v)  == [name |-> n, hasValue |-> TRUE,  value |-> Text(v)]
EnvJson(n, t) == [name |-> n, hasValue |-> TRUE,  value |-> t]
EnvFrom(n)    == [name |-> n, hasValue |-> FALSE, value |-> <<>>]

TrainContainer ==
    [name |-> "trainer", image |-> "pytorch/pytorch:latest",
     command |-> <<"python", "train.py">>, args |-> <<"--epochs", "3">>,
     env |-> <<EnvVar("CUDA_VISIBLE_DEVICES", "0")>>, gpu |-> FALSE,
     volumeMounts |-> <<>>]

CudaContainer ==
    [name |-> "cuda", image |-> "nvidia/cuda:11.8-runtime-ubuntu20.04",
     command |-> <<"nvidia-smi">>, args |-> <<>>, env |-> <<>>, gpu |-> TRUE,
     volumeMounts |-> <<>>]

ServeContainer ==
    [name |-> "web", image |-> "tensorflow/serving:latest",
     command |-> <<>>, args |-> <<"--port", "8501">>, env |-> <<>>, gpu |-> FALSE,
     volumeMounts |-> <<>>]

\* the pods a user submits: a training pod marked for offloading, annotated
\* as a function and with two env annotations, a GPU pod annotated and labelled as a job,
\* a two-container serving pod labelled as a function, a pod without
\* containers; metadata.labels is absent or carries the workload type
PodTemplates ==
    { [containers |-> <<TrainContainer>>,
       anns |-> (AnnOffload :> "true") @@ (AnnWorkloadType :> "function")
                @@ ("modal-operator.io/env-CUDA_VISIBLE_DEVICES" :> "1")
                @@ ("modal-operator.io/env-MODEL_PATH" :> "/models"),
       lbl |-> "absent"],
      [containers |-> <<CudaContainer>>, anns |-> (AnnWorkloadType :> "job"), lbl |-> "job"],
      [containers |-> <<ServeContainer, TrainContainer>>, anns |-> <<>>, lbl |-> "function"],
      [containers |-> <<>>, anns |-> <<>>, lbl |-> "absent"] }

\* status.startTime of a pod the kubelet has accepted
StartTime == "2024-01-01T00:00:00Z"

PodDoc(name, anns, lbl, containers) ==
    [metadata |->
        IF lbl = "absent"
        THEN [name |-> name, annotations |-> anns]
        ELSE [name |-> name, annotations |-> anns, labels |-> (LblWorkloadType :> lbl)],
     spec   |-> [containers |-> containers, volumes |-> <<"kube-api-access">>],
     status |-> [phase |-> "Pending", startTime |-> StartTime]]

(***************************************************************************)
(* The admission mutator.                                                  *)
(***************************************************************************)
Patch(op, path, value) == [op |-> op, path |-> path, value |-> value]

\* the capsule: the five JSON-encoded env values
AllImages(cs)   == PyList([i \in 1..Len(cs) |-> PyOpt(cs[i].image)])
AllNames(cs)    == PyList([i \in 1..Len(cs) |-> PyOpt(cs[i].name)])
AllCommands(cs) == PyList([i \in 1..Len(cs) |-> PyStrList(cs[i].command)])
AllArgs(cs)     == PyList([i \in 1..Len(cs) |-> PyStrList(cs[i].args)])

\* the text of a raw env value, as a Python str (None without a value)
EnvValueOf(e) == IF e.hasValue THEN PyStr(e.value[1].v) ELSE PyNone

RECURSIVE DictSet(_, _, _)
\* d[k] = v on a dict kept in insertion order
DictSet(pairs, k, v) ==
    IF Len(pairs) = 0 THEN <<PyPair(k, v)>>
    ELSE IF Head(pairs).s = k THEN <<PyPair(k, v)>> \o Tail(pairs)
    ELSE <<Head(pairs)>> \o DictSet(Tail(pairs), k, v)

RECURSIVE EnvPairs(_, _)
EnvPairs(envs, acc) ==
    IF Len(envs) = 0 THEN acc
    ELSE EnvPairs(Tail(envs), DictSet(acc, Head(envs).name, EnvValueOf(Head(envs))))

RECURSIVE AllEnvPairs(_, _)
AllEnvPairs(cs, acc) ==
    IF Len(cs) = 0 THEN acc ELSE AllEnvPairs(Tail(cs), EnvPairs(Head(cs).env, acc))

AllEnv(cs) == PyDict(AllEnvPairs(cs, <<>>))

LoggerEnv(pod_name, cs) ==
    << EnvVar("POD_NAME", pod_name),
       EnvFrom("POD_NAMESPACE"),
       EnvVar("MODAL_EXECUTION", "true"),
       EnvJson("ORIGINAL_IMAGES", Dumps(AllImages(cs))),
       EnvJson("ORIGINAL_NAMES", Dumps(AllNames(cs))),
       EnvJson("ORIGINAL_COMMANDS", Dumps(AllCommands(cs))),
       EnvJson("ORIGINAL_ARGS", Dumps(AllArgs(cs))),
       EnvJson("ORIGINAL_ENV", Dumps(AllEnv(cs))),
       EnvVar("HTTP_PROXY", "socks5://localhost:1080"),
       EnvVar("HTTPS_PROXY", "socks5://localhost:1080"),
       EnvVar("MODAL_OPERATOR_PROXY", "localhost:1080") >>

\* the mount of the credential secret, the same in both containers
SecretMount == [name |-> "modal-secret", mountPath |-> "/etc/modal-secret", readOnly |-> TRUE]

\* the first container, had the mutator named it logger
C11_NamedLogger(pod_name, cs) ==
    [name |-> "logger", image |-> OperatorImage,
     command |-> <<"modal-logger">>, args |-> <<>>,
     env |-> LoggerEnv(pod_name, cs), gpu |-> FALSE,
     volumeMounts |-> <<SecretMount>>]

LoggerContainer(pod_name, cs) ==
    [name |-> cs[1].name, image |-> OperatorImage,
     command |-> <<"modal-logger">>, args |-> <<>>,
     env |-> LoggerEnv(pod_name, cs), gpu |-> FALSE,
     volumeMounts |-> <<SecretMount>>]

ProxyContainer(pod_name) ==
    [name |-> "proxy", image |-> OperatorImage,
     command |-> <<"modal-proxy">>, args |-> <<>>,
     env |-> <<EnvVar("PROXY_PORT", "1080"), EnvVar("POD_NAME", pod_name)>>,
     gpu |-> FALSE, volumeMounts |-> <<SecretMount>>]

\* the ValueError raised by the validation, or NONE
MutationError(pod_dict) ==
    LET cs == Get(Get(pod_dict, "spec", <<>>), "containers", <<>>) IN
    IF Len(cs) = 0 THEN "Pod must have at least one container"
    ELSE IF cs[1].name \in {NONE, ""} THEN "Container must have a name"
    ELSE IF cs[1].image \in {NONE, ""} THEN "Container must have an image"
    ELSE NONE

NetworkingConfig(pod_spec) ==
    PyDict(<< PyPair("hostNetwork", PyBool(Get(pod_spec, "hostNetwork", FALSE))),
              PyPair("dnsPolicy", PyStr(Get(pod_spec, "dnsPolicy", "ClusterFirst"))),
              PyPair("subdomain", PyNone),
              PyPair("hostname", PyNone),
              PyPair("dnsConfig", PyNone) >>)

\* _generate_mutation_patches, for a pod that passed the validation
GenerateMutationPatches(pod_dict) ==
    LET pod_spec == Get(pod_dict, "spec", <<>>)
        cs       == Get(pod_spec, "containers", <<>>)
        meta     == Get(pod_dict, "metadata", <<>>)
        pod_name == Get(meta, "name", "unknown")
    IN  << Patch("replace", <<"spec", "containers">>,
                 <<LoggerContainer(pod_name, cs), ProxyContainer(pod_name)>>),
           Patch("add", <<"metadata", "annotations", AnnNetworking>>,
                 Dumps(NetworkingConfig(pod_spec))) >>
        \o (IF Get(pod_spec, "hostNetwork", FALSE)
            THEN <<Patch("replace", <<"spec", "hostNetwork">>, FALSE)>> ELSE <<>>)
        \o << Patch(IF Has(pod_spec, "dnsPolicy") THEN "replace" ELSE "add",
                    <<"spec", "dnsPolicy">>, "ClusterFirst"),
              Patch("add", <<"spec", "volumes", "-">>, "modal-secret"),
              Patch("add", <<"metadata", "annotations", AnnMutated>>, "true"),
              Patch("add", <<"metadata", "annotations", AnnTunnel>>, "true") >>
        \o (IF DOMAIN Get(meta, "labels", <<>>) = {}
            THEN <<Patch("add", <<"metadata", "labels">>, (LblTunnelPod :> pod_name))>>
            ELSE <<Patch("add", <<"metadata", "labels", LblTunnelPod>>, pod_name)>>)

\* what the webhook server answers: the HTTP status, whether the body is an
\* AdmissionReview, and the fields of its response; patch is the list that
\* _mutate_response encodes
Answer(http, uid, allowed, message, hasPatch, patch) ==
    [http |-> http, admissionReview |-> TRUE, uid |-> uid, allowed |-> allowed,
     message |-> message, hasPatch |-> hasPatch, patch |-> patch]

DenyResponse(message, uid) == Answer(200, uid, FALSE, message, FALSE, <<>>)

MutateResponse(patches, message, uid) == Answer(200, uid, TRUE, message, TRUE, patches)

\* mutate_pod: the admission response to an admission request, a dict with
\* the optional keys uid and object
MutatePod(admission_request) ==
    LET uid == Get(admission_request, "uid", "") IN
    IF ~Has(admission_request, "object")
    THEN DenyResponse("Mutation failed: 'object'", uid)
    ELSE LET pod_dict == admission_request["object"]
             err == MutationError(pod_dict)
         IN  IF err # NONE
             THEN DenyResponse("Mutation failed: " \o err, uid)
             ELSE MutateResponse(GenerateMutationPatches(pod_dict),
                                 "Mutated pod for Modal execution", uid)

(***************************************************************************)
(* The API server applying a JSON patch (RFC 6902) to the pod.             *)
(***************************************************************************)
PatchApplies(doc, p) ==
    /\ Has(doc, p.path[1])
    /\ IF Len(p.path) = 2
       THEN p.op = "replace" => Has(doc[p.path[1]], p.path[2])
       ELSE Has(doc[p.path[1]], p.path[2])

ApplyPatch(doc, p) ==
    LET top == p.path[1]
        key == p.path[2]
    IN  IF Len(p.path) = 2
        THEN Put(doc, top, Put(doc[top], key, p.value))
        ELSE IF p.path[3] = "-"
             THEN Put(doc, top, Put(doc[top], key, Append(doc[top][key], p.value)))
             ELSE Put(doc, top, Put(doc[top], key, Put(doc[top][key], p.path[3], p.value)))

RECURSIVE ApplyPatches(_, _)
\* [ok, doc]: a patch that does not apply fails the whole admission
ApplyPatches(doc, ps) ==
    IF Len(ps) = 0 THEN [ok |-> TRUE, doc |-> doc]
    ELSE IF ~PatchApplies(doc, Head(ps)) THEN [ok |-> FALSE, doc |-> doc]
    ELSE ApplyPatches(ApplyPatch(doc, Head(ps)), Tail(ps))


(***************************************************************************)
(* The webhook server in front of the mutator.                             *)
(***************************************************************************)
\* the body of a POST to /mutate: text that is not JSON, a JSON array, a JSON
\* object without "request", one whose "request" is a string, or one whose
\* "request" is an object (the admission request)
Body(kind, request) == [kind |-> kind, request |-> request]

\* an exception left the handler: aiohttp answers 500 with a plain text body
ServerError ==
    [http |-> 500, admissionReview |-> FALSE, uid |-> "", allowed |-> FALSE,
     message |-> "", hasPatch |-> FALSE, patch |-> <<>>]

\* webhook_handler.  request.json() raises on text that is not JSON and
\* leaves body unbound, so the except block raises UnboundLocalError; on an
\* array body["request"] raises TypeError and body.get AttributeError; on a
\* string request mutate_pod's .get raises AttributeError and so does the
\* except block's .get("uid")
WebhookHandler(body) ==
    IF body.kind \in {"not_json", "array", "request_string"} THEN ServerError
    ELSE IF body.kind = "no_request"
    THEN Answer(500, "", FALSE, "Webhook error: 'request'", FALSE, <<>>)
    ELSE MutatePod(body.request)

\* the uids of the admission requests
Uids == {"uid-1", "uid-2"}

\* the credentials of the backend, the content of the secret modal-token
TokenId     == "ak-0123"
TokenSecret == "as-4567"

\* a container that talks to the backend itself and carries the tokens
ClientContainer ==
    [name |-> "client", image |-> "python:3.11",
     command |-> <<"python", "app.py">>, args |-> <<>>,
     env |-> <<EnvVar("MODAL_TOKEN_ID", TokenId), EnvVar("MODAL_TOKEN_SECRET", TokenSecret)>>,
     gpu |-> FALSE, volumeMounts |-> <<>>]

\* the pods sent to the webhook: those of the cluster, a pod whose first
\* container has no name, one whose first container has no image, one that
\* carries the tokens in its env
AdmissionTemplates ==
    PodTemplates \cup
    { [containers |-> <<[TrainContainer EXCEPT !.name = NONE]>>, anns |-> <<>>, lbl |-> "job"],
      [containers |-> <<[ServeContainer EXCEPT !.image = NONE], TrainContainer>>,
       anns |-> <<>>, lbl |-> "job"],
      [containers |-> <<ClientContainer>>, anns |-> <<>>, lbl |-> "job"] }

\* the pod with spec.hostNetwork and spec.dnsPolicy set
HostNetworked(doc) ==
    Put(doc, "spec", Put(Put(doc.spec, "hostNetwork", TRUE), "dnsPolicy", "Default"))

AdmissionPods ==
    LET docs == {PodDoc(p, t.anns, t.lbl, t.containers) : p \in PodNames, t \in AdmissionTemplates}
    IN  docs \cup {HostNetworked(d) : d \in docs}

\* an admission request: uid is NONE when the key is absent
AdmissionRequest(uid, hasObject, object) ==
    (IF uid = NONE THEN <<>> ELSE ("uid" :> uid))
    @@ (IF hasObject THEN ("object" :> object) ELSE <<>>)

AdmissionBodies ==
    { Body(k, <<>>) : k \in {"not_json", "array", "no_request", "request_string"} }
    \cup { Body("request", AdmissionRequest(u, FALSE, <<>>)) : u \in Uids \cup {NONE} }
    \cup { Body("request", AdmissionRequest(u, TRUE, d)) : u \in Uids \cup {NONE}, d \in AdmissionPods }

NoAnswer ==
    [http |-> 0, admissionReview |-> FALSE, uid |-> "", allowed |-> FALSE,
     message |-> "", hasPatch |-> FALSE, patch |-> <<>>]

\* a review: the body received, the answer once served, and how many times
\* the pod of the body has been sent to the webhook
Review(body, state, answer, admissions) ==
    [body |-> body, state |-> state, answer |-> answer, admissions |-> admissions]

NoReview == Review(Body("none", <<>>), "idle", NoAnswer, 0)

(***************************************************************************)
(* The SOCKS5 proxy: one client connection.  Bytes are numbers.            *)
(***************************************************************************)
ReplyNoAuth      == <<5, 0>>
ReplyNoMethods   == <<5, 255>>
ReplyUnsupported == <<5, 8, 0, 1, 0, 0, 0, 0, 0, 0>>
ReplyRefused     == <<5, 5, 0, 1, 0, 0, 0, 0, 0, 0>>
ReplySuccess     == <<5, 0, 0, 1, 0, 0, 0, 0, 0, 0>>

\* what the clients send: a greeting, a request and a payload byte
Greetings == { <<5, 1, 0>>, <<5, 2, 2, 0>>, <<5, 1, 2>>, <<4, 1, 0>> }

Ipv6Address == [i \in 1..16 |-> 0]

Requests ==
    { <<5, 1, 0, 1, 10, 0, 0, 7, 0, 80>>,       \* CONNECT 10.0.0.7:80
      <<5, 1, 0, 3, 2, 100, 98, 21, 56>>,       \* CONNECT db:5432
      <<5, 1, 0, 4>> \o Ipv6Address \o <<0, 80>>, \* CONNECT [::]:80
      <<5, 2, 0, 1, 10, 0, 0, 7, 0, 80>> }      \* BIND

Payload == <<71>>

ClientScripts == { g \o r \o Payload : g \in Greetings, r \in Requests }

\* what the target sends once connected
TargetBytes == <<72>>

\* StreamReader.read(n): at most n of the bytes that have arrived
ReadUpTo(buf, n) == SubSeq(buf, 1, IF n < Len(buf) THEN n ELSE Len(buf))
AfterRead(buf, n) == SubSeq(buf, (IF n < Len(buf) THEN n ELSE Len(buf)) + 1, Len(buf))

\* the connection: the handler's position and locals, the client's stream
\* (script, wire: not yet sent; buf: arrived, not read; eof: EOF fed to the
\* reader; cgone: the client closed), the writes to the client (out; closed:
\* writer.close() was called), and the same for the target
NewConn(script) ==
    [pc |-> "handshake", script |-> script, wire |-> script, buf |-> <<>>,
     eof |-> FALSE, cgone |-> FALSE, out |-> <<>>, closed |-> FALSE,
     asked |-> FALSE, n_methods |-> 0, atyp |-> 0, addr_len |-> 0,
     host |-> <<>>, port |-> <<>>,
     target |-> "none", twire |-> TargetBytes, tbuf |-> <<>>, teof |-> FALSE,
     tgone |-> FALSE, tclosed |-> FALSE, toTarget |-> <<>>,
     c2t |-> "idle", t2c |-> "idle"]

\* the proxy serves no connection
NoConn == [NewConn(<<>>) EXCEPT !.pc = "idle"]


(***************************************************************************)
(* The HTTP gateway (tunnel/main.py): one request.  A header is a pair     *)
(* <<name, value>>; a Python dict of headers is a sequence of pairs with   *)
(* distinct names, in insertion order.  Names are compared as Python       *)
(* compares str keys (exactly) unless an operator says otherwise.          *)
(***************************************************************************)
\* str.lower() on the header names of the model
Lower(name) ==
    CASE name \in {"Authorization", "authorization", "AUTHORIZATION"} -> "authorization"
      [] name \in {"Connection", "connection"} -> "connection"
      [] name \in {"Host", "host"} -> "host"
      [] name \in {"TE", "te"} -> "te"
      [] name \in {"Transfer-Encoding", "transfer-encoding"} -> "transfer-encoding"
      [] name \in {"Upgrade", "upgrade"} -> "upgrade"
      [] name \in {"Proxy-Authorization", "proxy-authorization"} -> "proxy-authorization"
      [] name \in {"Proxy-Authenticate", "proxy-authenticate"} -> "proxy-authenticate"
      [] name \in {"Content-Type", "content-type"} -> "content-type"
      [] name \in {"X-Trace", "x-trace"} -> "x-trace"
      [] OTHER -> name

\* the header names the web framework's compiled parser knows, as it spells them
KnownHeaders ==
    {"Authorization", "Connection", "Host", "TE", "Transfer-Encoding", "Upgrade",
     "Proxy-Authorization", "Proxy-Authenticate", "Content-Type"}

\* the name under which request.headers holds a header line: the compiled
\* parser replaces a known name by its canonical spelling, the pure-Python
\* parser keeps the name as it was sent
ParsedName(parser, raw_name) ==
    IF parser = "c" /\ \E k \in KnownHeaders : Lower(k) = Lower(raw_name)
    THEN CHOOSE k \in KnownHeaders : Lower(k) = Lower(raw_name)
    ELSE raw_name

ParsedHeaders(parser, lines) ==
    [i \in 1 .. Len(lines) |-> <<ParsedName(parser, lines[i][1]), lines[i][2]>>]

DictKeys(d) == {d[i][1] : i \in 1 .. Len(d)}

\* d[key] = value
SetItem(d, key, value) ==
    IF key \in DictKeys(d)
    THEN [i \in 1 .. Len(d) |-> IF d[i][1] = key THEN <<key, value>> ELSE d[i]]
    ELSE Append(d, <<key, value>>)

\* d.pop(key, None)
Pop(d, key) == SelectSeq(d, LAMBDA h : h[1] # key)

RECURSIVE PopAll(_, _)
PopAll(d, keys) ==
    IF keys = <<>> THEN d ELSE PopAll(Pop(d, Head(keys)), Tail(keys))

\* headers[name] of a case-insensitive multidict: the first value of that name
FirstValue(headers, name) ==
    headers[CHOOSE i \in 1 .. Len(headers) :
                /\ Lower(headers[i][1]) = Lower(name)
                /\ \A j \in 1 .. i - 1 : Lower(headers[j][1]) # Lower(name)][2]

\* dict(request.headers): every name the multidict holds, with headers[name]
RECURSIVE DictOfFrom(_, _, _)
DictOfFrom(headers, i, d) ==
    IF i > Len(headers) THEN d
    ELSE DictOfFrom(headers, i + 1,
                    SetItem(d, headers[i][1], FirstValue(headers, headers[i][1])))

DictOf(headers) == DictOfFrom(headers, 1, <<>>)

\* what the HTTP client sends for the headers= it was given: the names are
\* case-insensitive there, a later entry replaces an earlier one of its name
RECURSIVE PrepareFrom(_, _, _)
PrepareFrom(d, i, sent) ==
    IF i > Len(d) THEN sent
    ELSE PrepareFrom(d, i + 1,
            IF \E j \in 1 .. Len(sent) : Lower(sent[j][1]) = Lower(d[i][1])
            THEN LET first == CHOOSE j \in 1 .. Len(sent) :
                                /\ Lower(sent[j][1]) = Lower(d[i][1])
                                /\ \A k \in 1 .. j - 1 : Lower(sent[k][1]) # Lower(d[i][1])
                 IN  [j \in 1 .. Len(sent) |-> IF j = first THEN d[i] ELSE sent[j]]
            ELSE Append(sent, d[i]))

PrepareHeaders(d) == PrepareFrom(d, 1, <<>>)

InjectedAuth == "Bearer " \o TokenId \o ":" \o TokenSecret

FunctionHopHeaders ==
    <<"connection", "upgrade", "proxy-authenticate", "proxy-authorization", "te",
      "trailers", "transfer-encoding">>

ApiHopHeaders ==
    <<"host", "connection", "upgrade", "proxy-authenticate", "proxy-authorization">>

\* the headers= of the upstream call of call_modal_function
FunctionHeaders(request_headers) ==
    PopAll(SetItem(SetItem(DictOf(request_headers), "Authorization", InjectedAuth),
                   "Content-Type", "application/json"),
           FunctionHopHeaders)

\* the headers= of the upstream call of proxy_modal_api
ApiHeaders(request_headers) ==
    PopAll(SetItem(DictOf(request_headers), "Authorization", InjectedAuth),
           ApiHopHeaders)

\* get_function_url: the URL is made of the name; no resource is read
GetFunctionUrl(function_name) == "https://func-" \o function_name \o "-default.modal.run"

ModalApiUrl(path) == "https://api.modal.com/" \o path

\* an upstream call: whether one was made, where to, and the headers sent
NoCall == [made |-> FALSE, url |-> "", headers |-> <<>>]
Call(url, headers) == [made |-> TRUE, url |-> url, headers |-> PrepareHeaders(headers)]

\* a response of the gateway
GatewayResponse(status, kind, function, detail) ==
    [status |-> status, kind |-> kind, function |-> function, detail |-> detail]
NoResponse == GatewayResponse(0, "none", "", "")

\* call_modal_function; json_ok: the body of the request is JSON;
\* upstream: "ok", or "fail" when the call raises or its answer is no JSON
CallModalFunction(function_name, request_headers, json_ok, upstream) ==
    IF ~json_ok
    THEN [call |-> NoCall,
          response |-> GatewayResponse(500, "error", "", "JSONDecodeError")]
    ELSE LET function_url == GetFunctionUrl(function_name)
         IN  IF function_url = ""
             THEN [call |-> NoCall,
                   response |-> GatewayResponse(404, "error", "",
                                    "Function " \o function_name \o " not found")]
             ELSE [call |-> Call(function_url, FunctionHeaders(request_headers)),
                   response |->
                       IF upstream = "ok"
                       THEN GatewayResponse(200, "success", function_name, "result")
                       ELSE GatewayResponse(500, "error", "", "ClientError")]

\* proxy_modal_api
ProxyModalApi(path, request_headers, upstream) ==
    [call |-> Call(ModalApiUrl(path), ApiHeaders(request_headers)),
     response |-> IF upstream = "ok"
                  THEN GatewayResponse(200, "forward", "", "body")
                  ELSE GatewayResponse(502, "error", "", "ClientError")]

\* the header lines a caller may send
CallerAuth == {"Bearer user-token", "Bearer other-token"}
HeaderLines ==
    {<<"Authorization", "Bearer user-token">>, <<"authorization", "Bearer other-token">>,
     <<"AUTHORIZATION", "Bearer user-token">>,
     <<"Host", "gateway:8080">>, <<"host", "gateway:8080">>,
     <<"Connection", "keep-alive">>, <<"connection", "close">>,
     <<"te", "trailers">>, <<"trailers", "x-checksum">>,
     <<"Transfer-Encoding", "chunked">>, <<"transfer-encoding", "chunked">>,
     <<"upgrade", "websocket">>, <<"proxy-authorization", "Basic cHJveHk=">>,
     <<"proxy-authenticate", "Basic">>, <<"X-Trace", "1">>}

MaxHeaders == 2
HeaderLists ==
    UNION {[1 .. n -> HeaderLines] : n \in 0 .. MaxHeaders}

\* a request and what the gateway did with it; has_cr: a ModalFunction
\* resource of that name with a function URL exists in the cluster
\* upstream: how the upstream call ended, "none" while there was none
Exchange(route, parser, lines, json_ok, has_cr, pc, call, upstream, response) ==
    [route |-> route, function_name |-> "foo", parser |-> parser, lines |-> lines,
     json_ok |-> json_ok, has_cr |-> has_cr, pc |-> pc, call |-> call,
     upstream |-> upstream, response |-> response]
NoExchange == Exchange("none", "c", <<>>, TRUE, FALSE, "idle", NoCall, "none", NoResponse)

(***************************************************************************)
(* The log streamer (docker/modal-logger/logger.py) of the pod p1.         *)
(***************************************************************************)
\* the seconds between two rounds of wait_for_modal_resource
PollInterval == 2

\* app_id: the app id wait_for_modal_resource found (0: none), streamed:
\* the app id `modal app logs` was started with (0: not started), delay:
\* the seconds of the sleep in progress, ended: how the log stream ended
\* ("no": it has not, "eof": the process closed its output, "error": an
\* exception was raised inside stream_logs)
Streamer(pc, app_id, resource_type, streamed, delay, ended) ==
    [pc |-> pc, app_id |-> app_id, resource_type |-> resource_type,
     streamed |-> streamed, delay |-> delay, ended |-> ended]
NoStreamer  == Streamer("idle", 0, NONE, 0, 0, "no")
NewStreamer == Streamer("get_job", 0, NONE, 0, 0, "no")

\* the seconds of one sleep of the loop that ends run
KeepAlive == 3600

\* a fault the except clause of stream_logs excludes: the exception leaves
\* stream_logs and run, and the process exits
C31_ErrorExits(ended) == IF ended = "error" THEN "exited" ELSE "completed"

\* stream_logs returns to run both after process.wait() and after
\* "except Exception", which only logs
AfterStream(ended) == "completed"

\* a fault the check of the app id excludes: every answer counts as found
C30_FindsAnything(app_id) == TRUE

\* "if app_id:"
Found(app_id) == app_id # 0

(***************************************************************************)
(* The metrics collector (metrics.py).  A labelled gauge is a function     *)
(* from the label values used so far to its value; the two dicts of times  *)
(* are kept as the sets of their keys; `calls` is the record_* calls made  *)
(* from outside the class, in order.  The counters and histograms, which   *)
(* only grow and are never read, are left out.                             *)
(***************************************************************************)
NewMetrics == [jobs_active |-> <<>>, start_times |-> {}, queue_times |-> {}, calls |-> <<>>]

\* gpu.split(":")[0] if gpu else None
GpuType(gpu) ==
    IF gpu \in {NONE, ""} THEN NONE
    ELSE LET colons == {i \in 1 .. Len(gpu) : SubSeq(gpu, i, i) = ":"} IN
         IF colons = {} THEN gpu
         ELSE SubSeq(gpu, 1, (CHOOSE i \in colons : \A j \in colons : i <= j) - 1)

\* gpu_type or "none"
GpuLabel(gpu_type) == IF gpu_type \in {NONE, ""} THEN "none" ELSE gpu_type

\* jobs_active.labels(gpu_type=label).inc() / .dec()
GaugeAdd(gauge, label, by) == Put(gauge, label, Get(gauge, label, 0) + by)

Called(m, op, job_name) == [m EXCEPT !.calls = Append(@, <<op, job_name>>)]

RecordJobQueued(m, job_name) ==
    [m EXCEPT !.queue_times = @ \cup {job_name}]

\* the queue time is observed and dropped only if the job is in the dict
RecordJobStarted(m, job_name, gpu_type) ==
    [m EXCEPT !.queue_times = @ \ {job_name}]

RecordJobCreated(m, job_name, gpu_type) ==
    RecordJobQueued([m EXCEPT !.jobs_active = GaugeAdd(@, GpuLabel(gpu_type), 1),
                              !.start_times = @ \cup {job_name}],
                    job_name)

RecordJobCompleted(m, job_name, gpu_type) ==
    [m EXCEPT !.jobs_active = GaugeAdd(@, GpuLabel(gpu_type), -1),
              !.start_times = @ \ {job_name}]

(***************************************************************************)
(* TrainJobs (trainjob_controller.py).                                     *)
(***************************************************************************)
\* the TrainJobs the API server stores, by name, and the create_job calls
\* made for them
NoTrain == [jobs |-> <<>>, calls |-> <<>>]

\* the part of a TrainJob spec the handler reads: runtimeRef.name (NONE when
\* absent), trainer.env (the names of its entries; hasEnv: the key is
\* there) and annotations["modal.com/enabled"] = "true"
TrainJobSpec(runtime, hasEnv, env, annotated) ==
    [runtime |-> runtime, hasEnv |-> hasEnv, env |-> env, annotated |-> annotated]

\* a stored TrainJob: pending is the event kopf has yet to handle
TrainJob(spec, pending, updates, retries) ==
    [spec |-> spec, pending |-> pending, updates |-> updates, retries |-> retries]

\* _should_handle_trainjob: "yes", "no", or the IndexError of [][0] when
\* trainer.env is the empty list
ShouldHandleTrainjob(spec) ==
    IF Len(spec.runtime) >= 6 /\ SubSeq(spec.runtime, 1, 6) = "modal-" THEN "yes"
    ELSE IF spec.hasEnv /\ spec.env = <<>> THEN "IndexError"
    ELSE IF spec.hasEnv /\ spec.env[1] = "MODAL_ENABLED" THEN "yes"
    ELSE IF spec.annotated THEN "yes"
    ELSE "no"

\* job_name = f"trainjob-{name}"
TrainJobName(name) == "trainjob-" \o name

\* what handle_trainjob does with a spec: "permanent" (kopf.PermanentError),
\* "skip" (returns {}), "raise" (an exception kopf retries), or "create"
HandleOutcome(spec) ==
    IF spec.runtime = NONE THEN "permanent"
    ELSE LET should == ShouldHandleTrainjob(spec) IN
         IF should = "no" THEN "skip"
         ELSE IF should = "IndexError" THEN "raise"
         ELSE "create"

(***************************************************************************)
(* A mutated pod before the status synchronizer: the pod, whether an       *)
(* update event of it waits for pod_updated, the status patches the        *)
(* synchronizer issued, the times another writer reset the phase, and the  *)
(* handler that ran last with whether it patched.                          *)
(***************************************************************************)
Watched(pod, update, patches, resets, last, patched) ==
    [pod |-> pod, update |-> update, patches |-> patches, resets |-> resets,
     last |-> last, patched |-> patched]

NoSync == Watched(<<>>, FALSE, 0, 0, "none", FALSE)

(***************************************************************************)
(* Custom resources.  A key is <<kind, name>>.                             *)
(***************************************************************************)
Kinds == {"ModalJob", "ModalFunction", "ModalEndpoint"}
CRNames == {ModalName(p) : p \in PodNames}
Keys == Kinds \X CRNames

IsStrList(v) == v.ty = "list" /\ \A i \in 1..Len(v.items) : v.items[i].ty = "str"
StrListOf(v) == [i \in 1..Len(v.items) |-> v.items[i].s]
IsStrDict(v) == v.ty = "dict" /\ \A i \in 1..Len(v.items) : v.items[i].items[1].ty = "str"

RECURSIVE PairsToFn(_)
PairsToFn(pairs) ==
    IF Len(pairs) = 0 THEN <<>>
    ELSE Put(PairsToFn(Tail(pairs)), Head(pairs).s, Head(pairs).items[1].s)

\* the OpenAPI schema of the CRD: the type each property must have
SchemaType(k) ==
    CASE k \in {"image", "handler", "cpu", "memory", "gpu"} -> "str"
      [] k \in {"command", "args"}                          -> "strlist"
      [] k = "env"                                          -> "strdict"
      [] OTHER                                              -> "int"

FieldValid(k, v) ==
    CASE SchemaType(k) = "str"     -> v.ty = "str"
      [] SchemaType(k) = "strlist" -> IsStrList(v)
      [] SchemaType(k) = "strdict" -> IsStrDict(v)
      [] OTHER                     -> v.ty = "int"

RequiredFields(kind) == IF kind = "ModalJob" THEN {"image"} ELSE {"image", "handler"}

\* the API server validating the body of a create against the CRD
CRDAccepts(kind, pyspec) ==
    /\ RequiredFields(kind) \subseteq DOMAIN pyspec
    /\ \A k \in DOMAIN pyspec : FieldValid(k, pyspec[k])

FieldOf(k, v) ==
    CASE SchemaType(k) = "str"     -> v.s
      [] SchemaType(k) = "strlist" -> StrListOf(v)
      [] SchemaType(k) = "strdict" -> PairsToFn(v.items)
      [] OTHER                     -> v.n

\* the stored spec of an accepted CR
StoredSpec(pyspec) == [k \in DOMAIN pyspec |-> FieldOf(k, pyspec[k])]

(***************************************************************************)
(* mutated_pod_created: the spec built from the capsule.                   *)
(***************************************************************************)
\* the positions at which the handler reads the logger container's env
IdxImages   == 2
IdxNames    == 3
IdxCommands == 4
IdxArgs     == 5
IdxEnv      == 6

EmptyListText == <<Tok("[", ""), Tok("]", "")>>
EmptyDictText == <<Tok("{", ""), Tok("}", "")>>

\* json.loads(body["spec"]["containers"][0]["env"][idx].get("value", dflt))
CapsuleRead(body, idx, dflt) ==
    LET cs == Get(Get(body, "spec", <<>>), "containers", <<>>) IN
    IF Len(cs) = 0 THEN PyError("IndexError")
    ELSE IF Len(cs[1].env) < idx + 1 THEN PyError("IndexError")
    ELSE LET e == cs[1].env[idx + 1] IN
         Loads(IF e.hasValue THEN e.value ELSE dflt)

\* x[0] if x else dflt
FirstOr(x, dflt) == IF Truthy(x) THEN Subscript0(x) ELSE dflt

\* "if x and x[0]": the value to store, an error, or nothing (PyNone)
FirstIfAny(x) ==
    IF ~Truthy(x) THEN PyNone
    ELSE LET f == Subscript0(x) IN
         IF IsError(f) THEN f ELSE IF Truthy(f) THEN f ELSE PyNone

InterceptTimeout == 600

\* the spec built from the five values read, or the first exception
BuildSpec(oi, on, oc, oa, oe, image, cmd, args, workload_type) ==
    LET base  == [image |-> image, env |-> oe, cpu |-> PyStr("1.0"), memory |-> PyStr("1Gi")]
        typed == IF workload_type = "function"
                 THEN Put(base, "handler", PyStr("serve"))
                 ELSE Put(base, "timeout", PyInt(InterceptTimeout))
        withc == IF cmd.ty = "null" THEN typed ELSE Put(typed, "command", cmd)
        witha == IF args.ty = "null" THEN withc ELSE Put(withc, "args", args)
        errs  == <<oi, on, oc, oa, oe, image, cmd, args>>
        bad   == {i \in 1..Len(errs) : IsError(errs[i])}
    IN  IF bad # {}
        THEN [err |-> errs[CHOOSE i \in bad : \A j \in bad : i <= j].s, spec |-> <<>>]
        ELSE [err |-> NONE, spec |-> witha]

\* [err, spec]: the exception raised while building the spec, or the spec
InterceptedSpec(body, workload_type) ==
    CHOOSE out \in
        { BuildSpec(oi, on, oc, oa, oe, FirstOr(oi, PyStr("python:3.11-slim")),
                    FirstIfAny(oc), FirstIfAny(oa), workload_type) :
            oi \in {CapsuleRead(body, IdxImages, EmptyListText)},
            on \in {CapsuleRead(body, IdxNames, EmptyListText)},
            oc \in {CapsuleRead(body, IdxCommands, EmptyListText)},
            oa \in {CapsuleRead(body, IdxArgs, EmptyListText)},
            oe \in {CapsuleRead(body, IdxEnv, EmptyDictText)} } : TRUE

InterceptKind(workload_type) ==
    IF workload_type = "function" THEN "ModalEndpoint" ELSE "ModalJob"

(***************************************************************************)
(* pod_created: the legacy path.                                           *)
(***************************************************************************)
HasGpuRequest(container) == container.gpu

ShouldOffload(body) ==
    LET anns == Get(Get(body, "metadata", <<>>), "annotations", <<>>)
        cs   == Get(Get(body, "spec", <<>>), "containers", <<>>)
    IN  \/ Get(anns, AnnOffload, NONE) = "true"
        \/ Get(anns, AnnUseModal, NONE) = "true"
        \/ \E i \in 1..Len(cs) : HasGpuRequest(cs[i])

RECURSIVE ContainerEnv(_, _)
\* env[env_var["name"]] = env_var.get("value", ""), for plain values
ContainerEnv(envs, acc) ==
    IF Len(envs) = 0 THEN acc
    ELSE ContainerEnv(Tail(envs),
            Put(acc, Head(envs).name,
                IF Head(envs).hasValue THEN Head(envs).value[1].v ELSE ""))

LegacyTimeout == 300

EnvPrefix == "modal-operator.io/env-"

\* key.startswith(prefix)
StartsWith(key, prefix) ==
    Len(key) >= Len(prefix) /\ SubSeq(key, 1, Len(prefix)) = prefix

\* env[key[len("modal-operator.io/env-"):]] = value, for the env-* annotations
AnnotationEnv(annotations) ==
    LET keys == {k \in DOMAIN annotations : StartsWith(k, EnvPrefix)}
        env_name(k) == SubSeq(k, Len(EnvPrefix) + 1, Len(k))
    IN  [n \in {env_name(k) : k \in keys} |->
            annotations[CHOOSE k \in keys : env_name(k) = n]]

\* _pod_to_modal_job_spec, for a pod with a container and none of the
\* image, command, cpu, memory, timeout and gpu annotations
PodToModalJobSpec(body) ==
    LET c    == body.spec.containers[1]
        env  == ContainerEnv(c.env, AnnotationEnv(body.metadata.annotations))
        base == [image |-> IF c.image = NONE THEN "python:3.11-slim" ELSE c.image,
                 command |-> c.command, args |-> c.args,
                 cpu |-> "1.0", memory |-> "512Mi", timeout |-> LegacyTimeout,
                 retries |-> 0, tunnel_enabled |-> FALSE, tunnel_port |-> 8000,
                 replicas |-> 1, enable_i6pn |-> FALSE]
        gpud == IF c.gpu THEN Put(base, "gpu", "T4:1") ELSE base
    IN  IF DOMAIN env # {} THEN Put(gpud, "env", env) ELSE gpud


(***************************************************************************)
(* The backend client (ModalJobController, mock=False).                    *)
(***************************************************************************)
Digits == {"0", "1", "2", "3", "4", "5", "6", "7", "8", "9"}
DigitValue(c) == CHOOSE n \in 0 .. 9 : ToString(n) = c
CharsOf(s) == {SubSeq(s, i, i) : i \in 1 .. Len(s)}

\* float(cpu) succeeds on a decimal string: digits with at most one point
\* (of what float() accepts besides, no quantity of the model makes use)
FloatOk(cpu) ==
    /\ CharsOf(cpu) \subseteq Digits \cup {"."}
    /\ CharsOf(cpu) \cap Digits # {}
    /\ Cardinality({i \in 1 .. Len(cpu) : SubSeq(cpu, i, i) = "."}) <= 1

RECURSIVE DecimalValue(_)
\* the number a string of digits stands for
DecimalValue(s) ==
    IF Len(s) = 0 THEN 0
    ELSE DecimalValue(SubSeq(s, 1, Len(s) - 1)) * 10 + DigitValue(SubSeq(s, Len(s), Len(s)))

\* float(cpu) in thousandths, for a decimal string of at most three decimals
FloatMillis(cpu) ==
    LET dots == {i \in 1 .. Len(cpu) : SubSeq(cpu, i, i) = "."}
        dot  == IF dots = {} THEN Len(cpu) + 1 ELSE CHOOSE i \in dots : TRUE
        frac == SubSeq(SubSeq(cpu, dot + 1, Len(cpu)) \o "000", 1, 3)
    IN  DecimalValue(SubSeq(cpu, 1, dot - 1)) * 1000 + DecimalValue(frac)

\* function_kwargs["cpu"] in thousandths; -1: float(cpu) raised ValueError
CpuKwarg(cpu) == IF FloatOk(cpu) THEN FloatMillis(cpu) ELSE -1

\* the CPU extraction of the pod mirror, in thousandths: a quantity in
\* millicores ("250m") is divided by 1000, a decimal is kept
ExtractCpu(quantity) ==
    IF Len(quantity) > 1 /\ SubSeq(quantity, Len(quantity), Len(quantity)) = "m"
    THEN DecimalValue(SubSeq(quantity, 1, Len(quantity) - 1))
    ELSE FloatMillis(quantity)

\* parse_memory succeeds on <n>Gi, <n>G, <n>Mi, <n>M and <n>
ParseMemoryOk(memory) == memory \in {"512Mi", "1Gi", "512"}

\* ModalJobSpec(**spec): the defaults of the pydantic model
ModalJobSpec(spec) ==
    [image          |-> spec.image,
     command        |-> Get(spec, "command", <<>>),
     args           |-> Get(spec, "args", <<>>),
     cpu            |-> Get(spec, "cpu", "1.0"),
     memory         |-> Get(spec, "memory", "512Mi"),
     gpu            |-> Get(spec, "gpu", NONE),
     env            |-> Get(spec, "env", <<>>),
     timeout        |-> Get(spec, "timeout", 300),
     retries        |-> Get(spec, "retries", 0),
     tunnel_enabled |-> Get(spec, "tunnel_enabled", FALSE),
     tunnel_port    |-> Get(spec, "tunnel_port", 8000),
     replicas       |-> Get(spec, "replicas", 1),
     enable_i6pn    |-> Get(spec, "enable_i6pn", FALSE)]

\* create_modal_job: env_vars, with the tunnel settings when enabled
JobEnvVars(job_spec) ==
    IF job_spec.tunnel_enabled
    THEN Put(Put(job_spec.env, "TUNNEL_ENABLED", "true"),
             "TUNNEL_PORT", ToString(job_spec.tunnel_port))
    ELSE job_spec.env

\* os.environ of distributed_job_function(rank, world_size)
WorkerEnv(rank, world_size, env, enable_i6pn) ==
    LET ranked == Put(Put(<<>>, "RANK", ToString(rank)), "WORLD_SIZE", ToString(world_size))
        custom == env @@ ranked
    IN  IF enable_i6pn THEN Put(custom, "MODAL_I6PN_ENABLED", "true") ELSE custom

\* cmd_with_rank, for argv elements that are a whole placeholder
CmdWithRank(command, rank, world_size) ==
    [i \in 1..Len(command) |->
        IF command[i] = "{rank}" THEN ToString(rank)
        ELSE IF command[i] = "{world_size}" THEN ToString(world_size)
        ELSE command[i]]

Spawn(rank, world_size, env, argv) ==
    [rank |-> rank, world_size |-> world_size, env |-> env, argv |-> argv]

IsDistributed(replicas, enable_i6pn) == replicas > 1 \/ enable_i6pn

\* the number of spawn calls create_job sets out to make
SpawnsWanted(replicas, enable_i6pn) ==
    IF IsDistributed(replicas, enable_i6pn)
    THEN (IF replicas > 0 THEN replicas ELSE 0)
    ELSE 1

\* the spawn calls made when the backend lets `done` of them through:
\* _create_distributed_job spawns rank 0, 1, ... in that order
JobSpawns(command, env, replicas, enable_i6pn, done) ==
    IF IsDistributed(replicas, enable_i6pn)
    THEN [i \in 1..done |->
            Spawn(i - 1, replicas, WorkerEnv(i - 1, replicas, env, enable_i6pn),
                  CmdWithRank(command, i - 1, replicas))]
    ELSE [i \in 1..done |-> Spawn(-1, -1, env, command)]

\* create_job: the record of the call; `done` spawn calls went through
\* before the backend failed (all of them: no failure)
CreateJob(name, image, command, cpu, memory, env, replicas, enable_i6pn, done) ==
    LET parsed == FloatOk(cpu) /\ ParseMemoryOk(memory)
        wanted == SpawnsWanted(replicas, enable_i6pn)
        made   == IF parsed THEN done ELSE 0
        ok     == parsed /\ made = wanted /\ wanted > 0
        error  == IF ok THEN NONE
                  ELSE IF ~parsed THEN "ValueError"
                  ELSE IF made < wanted THEN "Exception" ELSE "IndexError"
    IN  [op          |-> "create_job",
         error       |-> error,
         name        |-> name,
         cpu         |-> cpu,
         cpu_kwarg   |-> CpuKwarg(cpu),
         image       |-> Get(env, "ORIGINAL_IMAGE", image),
         command     |-> command,
         args        |-> <<>>,
         replicas    |-> replicas,
         enable_i6pn |-> enable_i6pn,
         distributed |-> IsDistributed(replicas, enable_i6pn),
         spawns      |-> JobSpawns(command, env, replicas, enable_i6pn, made),
         ok          |-> ok,
         state       |-> IF ok THEN "running" ELSE "not_created"]

\* create_function: returns {"status": "failed"} instead of raising
CreateFunction(name, image, handler, cpu, memory, env, backend_ok) ==
    LET ok == FloatOk(cpu) /\ ParseMemoryOk(memory) /\ backend_ok IN
    [op |-> "create_function", error |-> IF ok THEN NONE ELSE "Exception", name |-> "function-" \o name, image |-> image,
     cpu |-> cpu, cpu_kwarg |-> CpuKwarg(cpu),
     command |-> <<>>, args |-> <<>>, replicas |-> 1, enable_i6pn |-> FALSE,
     distributed |-> FALSE, spawns |-> <<>>,
     ok |-> ok, state |-> IF ok THEN "deployed" ELSE "not_created"]

\* create_endpoint
CreateEndpoint(name, image, handler, cpu, memory, env, command, args, backend_ok) ==
    LET ok == FloatOk(cpu) /\ ParseMemoryOk(memory) /\ backend_ok IN
    [op |-> "create_endpoint",
     error |-> IF ok THEN NONE ELSE IF backend_ok THEN "ValueError" ELSE "Exception",
     name |-> name \o "-endpoint", image |-> image,
     cpu |-> cpu, cpu_kwarg |-> CpuKwarg(cpu),
     command |-> command, args |-> args, replicas |-> 1, enable_i6pn |-> FALSE,
     distributed |-> FALSE, spawns |-> <<>>,
     ok |-> ok, state |-> IF ok THEN "deployed" ELSE "not_created"]

\* the orphan scan of create_endpoint: the first deployment of that name
OrphanOf(remote, deployment_name) ==
    LET hits == {i \in 1..Len(remote) :
                    remote[i].name = deployment_name /\ remote[i].state = "deployed"}
    IN  IF hits = {} THEN 0 ELSE CHOOSE i \in hits : \A j \in hits : i <= j


(***************************************************************************)
(* The state.                                                              *)
(***************************************************************************)
VARIABLES
    pods,         \* the pods of the cluster: name -> pod
    original,     \* name -> the pod as its user submitted it
    podHandlers,  \* name -> the progress of the pod handlers (kopf's record)
    crs,          \* the custom resources of the cluster: key -> CR
    createLog,    \* every CR creation the API server accepted, in order
    deleted,      \* the uids of the CRs whose delete handler has run
    apps,         \* every backend create call, in order; an app id is its index
    stopCalls,    \* the app ids cancel_job or delete_app was called with
    services,     \* the names of the ExternalName Services
    metrics,      \* the metrics collector of the operator process
    review,       \* the admission review the webhook server is serving
    conn,         \* the connection the SOCKS5 proxy is serving
    gw,           \* the request the HTTP gateway is serving
    streamer,     \* the log streamer in the logger container of a pod
    other,        \* a second connection of the SOCKS5 proxy, not scheduled now
    train,        \* the TrainJobs, and the backend calls made for them
    sync          \* a mutated pod before the status synchronizer, and its patches

vars == <<pods, original, podHandlers, crs, createLog, deleted, apps, stopCalls, services,
          metrics, review, conn, gw, streamer, other, train, sync>>

\* the state of the cluster, and the state of the two servers beside it
cluster == <<pods, original, podHandlers, crs, createLog, deleted, apps, stopCalls, services,
             metrics>>
servers == <<review, conn, gw, streamer, other, train, sync>>

IdleHandlers == [legacy |-> "idle", mutated |-> "idle", attempts |-> 0, update |-> FALSE]

ClusterInit ==
    /\ pods = <<>>
    /\ original = <<>>
    /\ podHandlers = [p \in PodNames |-> IdleHandlers]
    /\ crs = <<>>
    /\ createLog = <<>>
    /\ deleted = {}
    /\ apps = <<>>
    /\ stopCalls = {}
    /\ services = {}
    /\ metrics = NewMetrics

\* no admission request, no proxy connection, no gateway request and no
\* log streamer yet
Init ==
    /\ ClusterInit
    /\ review = NoReview
    /\ conn = NoConn
    /\ gw = NoExchange
    /\ streamer = NoStreamer
    /\ other = NoConn
    /\ train = NoTrain
    /\ sync = NoSync

Annotations(body) == Get(Get(body, "metadata", <<>>), "annotations", <<>>)
Labels(body)      == Get(Get(body, "metadata", <<>>), "labels", <<>>)
IsMutated(body)   == Get(Annotations(body), AnnMutated, NONE) = "true"

\* a new CR, as the API server stores it
NewCR(uid, spec, pod) ==
    [uid |-> uid, spec |-> spec, status |-> <<>>, originalPod |-> pod,
     handled |-> FALSE, deleting |-> FALSE, updatePending |-> FALSE]

Created(key, by, pod) == [key |-> key, by |-> by, pod |-> pod]

\* create_namespaced_custom_object, when no CR of that key exists
StoreCR(key, spec, by, pod) ==
    /\ crs' = Put(crs, key, NewCR(Len(createLog) + 1, spec, pod))
    /\ createLog' = Append(createLog, Created(key, by, pod))

(***************************************************************************)
(* The user and the API server: pod admission.                             *)
(***************************************************************************)
\* what the API server stores for a submitted pod, or NONE when it is
\* refused (by the webhook, by a patch that does not apply, by validation)
Admitted(doc, webhook) ==
    IF Len(doc.spec.containers) = 0 THEN [ok |-> FALSE, doc |-> doc]
    ELSE IF ~webhook THEN [ok |-> TRUE, doc |-> doc]
    ELSE LET resp == MutatePod("object" :> doc) IN
         IF ~resp.allowed THEN [ok |-> FALSE, doc |-> doc]
         ELSE ApplyPatches(doc, resp.patch)

SubmitPod(p, t, webhook) ==
    /\ p \notin DOMAIN pods
    /\ LET doc == PodDoc(p, t.anns, t.lbl, t.containers)
           adm == Admitted(doc, webhook)
       IN  /\ adm.ok
           /\ pods' = Put(pods, p, adm.doc)
           /\ original' = Put(original, p, doc)
           /\ podHandlers' = [podHandlers EXCEPT ![p] =
                  [legacy |-> "pending",
                   mutated |-> IF IsMutated(adm.doc) THEN "pending" ELSE "idle",
                   attempts |-> 0, update |-> FALSE]]
    /\ UNCHANGED <<servers, metrics, crs, createLog, deleted, apps, stopCalls, services>>

(***************************************************************************)
(* The pod handlers.                                                       *)
(***************************************************************************)
\* a pod_created without the skip: the fault that C3 excludes
C3_SkipsNoPod(annotations) == FALSE

\* pod_created: "skip if already mutated by webhook"
AlreadyMutated(annotations) == Get(annotations, AnnMutated, NONE) = "true"

\* pod_created: runs once; every exception is caught and logged
PodCreated(p) ==
    /\ p \in DOMAIN pods
    /\ podHandlers[p].legacy = "pending"
    /\ podHandlers' = [podHandlers EXCEPT ![p].legacy = "done"]
    /\ LET body == pods[p]
           key  == <<"ModalJob", ModalName(p)>>
       IN  IF AlreadyMutated(Annotations(body)) \/ ~ShouldOffload(body) \/ key \in DOMAIN crs
           THEN UNCHANGED <<crs, createLog>>
           ELSE StoreCR(key, PodToModalJobSpec(body), "pod_created", p)
    /\ UNCHANGED <<servers, metrics, pods, original, deleted, apps, stopCalls, services>>

WorkloadType(body) == Get(Labels(body), LblWorkloadType, "job")

\* mutated_pod_created, up to the existence check; kopf runs the handlers of
\* an object one after the other, in the order of their registration
MutatedPodCheck(p) ==
    /\ p \in DOMAIN pods
    /\ podHandlers[p].legacy = "done"
    /\ podHandlers[p].mutated = "pending"
    /\ LET key == <<InterceptKind(WorkloadType(pods[p])), ModalName(p)>> IN
       podHandlers' = [podHandlers EXCEPT ![p].mutated =
                          IF key \in DOMAIN crs THEN "done" ELSE "checked"]
    /\ UNCHANGED <<servers, metrics, pods, original, crs, createLog, deleted, apps, stopCalls, services>>

\* mutated_pod_created, from the 404 on: an exception is re-raised, and
\* kopf runs the handler again
MutatedPodCreate(p) ==
    /\ p \in DOMAIN pods
    /\ podHandlers[p].mutated = "checked"
    /\ \E wt \in {WorkloadType(pods[p])} :
       \E r \in {InterceptedSpec(pods[p], wt)} :
       LET kind == InterceptKind(wt)
           key  == <<kind, ModalName(p)>>
           ok   == r.err = NONE /\ CRDAccepts(kind, r.spec) /\ key \notin DOMAIN crs
       IN  IF ok
           THEN /\ StoreCR(key, StoredSpec(r.spec), "mutated_pod_created", p)
                /\ podHandlers' = [podHandlers EXCEPT ![p].mutated = "done"]
           ELSE /\ UNCHANGED <<crs, createLog>>
                /\ podHandlers' = [podHandlers EXCEPT
                       ![p].mutated = "pending",
                       ![p].attempts = IF @ < MaxAttempts THEN @ + 1 ELSE @]
    /\ UNCHANGED <<servers, metrics, pods, original, deleted, apps, stopCalls, services>>


(***************************************************************************)
(* The user: custom resources created, updated and deleted directly.       *)
(***************************************************************************)
UserJob(r, b, e) ==
    [image |-> "pytorch/pytorch:latest", command |-> <<"torchrun", "{rank}">>,
     timeout |-> 300, replicas |-> r, enable_i6pn |-> b, env |-> e]

\* ModalJobs of every size, one that carries its own RANK, and one that
\* asks for a quarter of a CPU in millicores
UserJobSpecs ==
    { UserJob(r, b, <<>>) : r \in 0..MaxReplicas, b \in BOOLEAN }
        \cup { UserJob(MaxReplicas, TRUE, ("RANK" :> "7")) }
        \cup { Put(UserJob(1, FALSE, <<>>), "cpu", "250m") }

UserFunctionSpecs ==
    { [image |-> "python:3.11-slim", handler |-> "app.process_image"] }

UserEndpointSpecs ==
    { [image |-> "tensorflow/serving:latest", handler |-> "serve.predict"],
      [image |-> "python:3.11-slim", handler |-> "serve",
       command |-> <<"python", "-m", "http.server">>, args |-> <<"8080">>] }

UserSpecs(kind) ==
    CASE kind = "ModalJob"      -> UserJobSpecs
      [] kind = "ModalFunction" -> UserFunctionSpecs
      [] kind = "ModalEndpoint" -> UserEndpointSpecs

\* a user creates one CR
UserCreateCR(key, spec) ==
    /\ key \notin DOMAIN crs
    /\ \A i \in 1..Len(createLog) : createLog[i].by # "user"
    /\ StoreCR(key, spec, "user", NONE)
    /\ UNCHANGED <<servers, metrics, pods, original, podHandlers, deleted, apps, stopCalls, services>>

UpdatedTimeout == 3600

\* a user edits the spec of a ModalJob
UserUpdateCR(key) ==
    /\ key \in DOMAIN crs
    /\ key[1] = "ModalJob"
    /\ crs[key].handled
    /\ ~crs[key].deleting
    /\ Get(crs[key].spec, "timeout", 0) # UpdatedTimeout
    /\ crs' = [crs EXCEPT ![key].spec = Put(@, "timeout", UpdatedTimeout),
                          ![key].updatePending = TRUE]
    /\ UNCHANGED <<servers, metrics, pods, original, podHandlers, createLog, deleted, apps, stopCalls, services>>

\* a user deletes a CR: the object stays until its delete handler has run
UserDeleteCR(key) ==
    /\ key \in DOMAIN crs
    /\ ~crs[key].deleting
    /\ crs' = [crs EXCEPT ![key].deleting = TRUE]
    /\ UNCHANGED <<servers, metrics, pods, original, podHandlers, createLog, deleted, apps, stopCalls, services>>

(***************************************************************************)
(* The reconcilers.                                                        *)
(***************************************************************************)
Condition(status, reason) == [type |-> "Ready", status |-> status, reason |-> reason]

\* patch_namespaced_custom_object_status: a merge patch
MergeStatus(status, patch) == patch @@ status

\* a fault the handlers exclude: a status patch that raises marks the CR
\* Failed
C32_FailsOnPatchError(status, patch, patch_ok) ==
    IF patch_ok THEN MergeStatus(status, patch)
    ELSE MergeStatus(status, [phase |-> "Failed"])

\* the status after the handler's patch: when the patch raises, "except
\* Exception as status_error" logs and the handler goes on
PatchedStatus(status, patch, patch_ok) ==
    IF patch_ok THEN MergeStatus(status, patch) ELSE status

\* a create handler that runs again for the same object: the fault that C4
\* excludes
C4_RunsAgain(key, kind) ==
    /\ key \in DOMAIN crs
    /\ key[1] = kind
    /\ ~crs[key].deleting
    /\ Len(apps) < 2

\* kopf.on.create: the handler runs once for an object, before any deletion
Reconcilable(key, kind) ==
    /\ key \in DOMAIN crs
    /\ key[1] = kind
    /\ ~crs[key].handled
    /\ ~crs[key].deleting

AppRecord(call, key) == call @@ [uid |-> crs[key].uid, key |-> key]

\* create_modal_job reaches metrics.record_job_created: create_job returned
Recorded(call) == call.ok

\* create_modal_job; `done` spawn calls go through, the status patch
\* succeeds or raises
CreateModalJob(key, done, patch_ok) ==
    /\ Reconcilable(key, "ModalJob")
    /\ LET job_spec == ModalJobSpec(crs[key].spec)
           env_vars == JobEnvVars(job_spec)
           call     == CreateJob(key[2], job_spec.image, job_spec.command, job_spec.cpu,
                                 job_spec.memory, env_vars, job_spec.replicas,
                                 job_spec.enable_i6pn, done)
           app_id   == Len(apps) + 1
           patch    == IF call.ok
                       THEN [phase |-> "Running", modal_app_id |-> app_id,
                             conditions |-> <<Condition("True", "JobCreated")>>]
                       ELSE [phase |-> "Failed",
                             conditions |->
                                <<Condition("False", "CreationFailed_" \o call.error)>>]
       IN  /\ done \in 0..SpawnsWanted(job_spec.replicas, job_spec.enable_i6pn)
           /\ apps' = Append(apps, AppRecord(call, key))
           /\ metrics' = IF Recorded(call)
                         THEN Called(RecordJobCreated(metrics, key[2], GpuType(job_spec.gpu)),
                                     "created", key[2])
                         ELSE metrics
           /\ crs' = [crs EXCEPT
                  ![key].handled = TRUE,
                  ![key].status = PatchedStatus(@, patch, patch_ok)]
    /\ UNCHANGED <<servers, pods, original, podHandlers, createLog, deleted, stopCalls, services>>

\* update_modal_job: logs
UpdateModalJob(key) ==
    /\ key \in DOMAIN crs
    /\ key[1] = "ModalJob"
    /\ crs[key].handled
    /\ crs[key].updatePending
    /\ ~crs[key].deleting
    /\ crs' = [crs EXCEPT ![key].updatePending = FALSE]
    /\ UNCHANGED <<servers, metrics, pods, original, podHandlers, createLog, deleted, apps, stopCalls, services>>

Deletable(key, kind) ==
    /\ key \in DOMAIN crs
    /\ key[1] = kind
    /\ crs[key].deleting

\* the API server removing the object once the handler's finalizer is gone
Remove(key) ==
    /\ crs' = [k \in DOMAIN crs \ {key} |-> crs[k]]
    /\ deleted' = deleted \cup {crs[key].uid}

\* delete_modal_job reaches metrics.record_job_completed: "if spec:"
Completes(cr) == DOMAIN cr.spec # {}

\* delete_modal_job
DeleteModalJob(key) ==
    /\ Deletable(key, "ModalJob")
    /\ stopCalls' = IF Has(crs[key].status, "modal_app_id")
                    THEN stopCalls \cup {crs[key].status.modal_app_id}
                    ELSE stopCalls
    /\ metrics' = IF Completes(crs[key])
                  THEN Called(RecordJobCompleted(metrics, key[2],
                                                 GpuType(Get(crs[key].spec, "gpu", NONE))),
                              "completed", key[2])
                  ELSE metrics
    /\ Remove(key)
    /\ UNCHANGED <<servers, pods, original, podHandlers, createLog, apps, services>>

\* create_modal_function; kopf stores the dict the handler returns under
\* status.create_modal_function
CreateModalFunction(key, backend_ok, service_ok) ==
    /\ Reconcilable(key, "ModalFunction")
    /\ LET spec   == crs[key].spec
           call   == CreateFunction(key[2], spec.image, spec.handler,
                                    Get(spec, "cpu", "1.0"), Get(spec, "memory", "512Mi"),
                                    Get(spec, "env", <<>>), backend_ok)
           app_id == Len(apps) + 1
           result == IF call.ok
                     THEN [phase |-> "Deployed", modal_app_id |-> app_id,
                           message |-> "Function deployed successfully"]
                     ELSE [phase |-> "Failed", message |-> call.error]
       IN  /\ apps' = Append(apps, AppRecord(call, key))
           /\ services' = IF call.ok /\ service_ok
                          THEN services \cup {key[2]} ELSE services
           /\ crs' = [crs EXCEPT
                  ![key].handled = TRUE,
                  ![key].status = Put(@, "create_modal_function", result)]
    /\ UNCHANGED <<servers, metrics, pods, original, podHandlers, createLog, deleted, stopCalls>>

\* delete_modal_function: deletes the Service
DeleteModalFunction(key) ==
    /\ Deletable(key, "ModalFunction")
    /\ services' = services \ {key[2]}
    /\ Remove(key)
    /\ UNCHANGED <<servers, metrics, pods, original, podHandlers, createLog, apps, stopCalls>>

\* create_modal_endpoint; the orphan scan stops an earlier deployment
\* of the same name; list_ok: listing and stopping did not raise (an
\* exception there is logged and the deploy goes on)
CreateModalEndpoint(key, backend_ok, patch_ok, list_ok) ==
    /\ Reconcilable(key, "ModalEndpoint")
    /\ LET spec   == crs[key].spec
           call   == CreateEndpoint(key[2], spec.image, spec.handler,
                                    Get(spec, "cpu", "1.0"), Get(spec, "memory", "512Mi"),
                                    Get(spec, "env", <<>>), Get(spec, "command", <<>>),
                                    Get(spec, "args", <<>>), backend_ok)
           orphan == OrphanOf(apps, call.name)
           swept  == IF orphan = 0 \/ call.error = "ValueError" \/ ~list_ok THEN apps
                     ELSE [apps EXCEPT ![orphan].state = "stopped"]
           app_id == Len(apps) + 1
           patch  == IF call.ok
                     THEN [phase |-> "Ready", modal_app_id |-> app_id,
                           conditions |-> <<Condition("True", "EndpointReady")>>]
                     ELSE [phase |-> "Failed",
                           conditions |->
                              <<Condition("False", "CreationFailed_" \o call.error)>>]
       IN  /\ apps' = Append(swept, AppRecord(call, key))
           /\ crs' = [crs EXCEPT
                  ![key].handled = TRUE,
                  ![key].status = PatchedStatus(@, patch, patch_ok)]
    /\ UNCHANGED <<servers, metrics, pods, original, podHandlers, createLog, deleted, stopCalls, services>>

\* delete_modal_endpoint
DeleteModalEndpoint(key) ==
    /\ Deletable(key, "ModalEndpoint")
    /\ stopCalls' = IF Has(crs[key].status, "modal_app_id")
                    THEN stopCalls \cup {crs[key].status.modal_app_id}
                    ELSE stopCalls
    /\ Remove(key)
    /\ UNCHANGED <<servers, metrics, pods, original, podHandlers, createLog, apps, services>>

\* the backend: a running job ends
RemoteComplete(i, outcome) ==
    /\ i \in 1..Len(apps)
    /\ apps[i].op = "create_job"
    /\ apps[i].state = "running"
    /\ apps' = [apps EXCEPT ![i].state = outcome]
    /\ UNCHANGED <<servers, metrics, pods, original, podHandlers, crs, createLog, deleted, stopCalls, services>>


(***************************************************************************)
(* The status synchronizer.                                                *)
(***************************************************************************)
\* the status patch sync_mutated_pod_status builds for a Pending pod
RunningStatusPatch(pod) ==
    [phase |-> "Running", podIP |-> "10.0.0.1",
     containerStatuses |->
        <<[name |-> pod.spec.containers[1].name,
           image |-> pod.spec.containers[1].image,
           imageID |-> "modal.com/" \o Get(Annotations(pod), AnnOriginalImage,
                                           pod.spec.containers[1].image),
           ready |-> TRUE, restartCount |-> 0, started |-> TRUE,
           state |-> "running", startedAt |-> pod.status.startTime]>>]

\* the call patches a pod that is Pending or Running
C40_PatchesRunning(pod) ==
    IF ~IsMutated(pod) THEN [result |-> FALSE, patched |-> FALSE, pod |-> pod]
    ELSE IF pod.status.phase \in {"Pending", "Running"}
    THEN [result |-> TRUE, patched |-> TRUE,
          pod |-> [pod EXCEPT !.status = RunningStatusPatch(pod) @@ pod.status]]
    ELSE [result |-> FALSE, patched |-> FALSE, pod |-> pod]

\* the call always patches, whatever the phase
C16_AlwaysPatches(pod) ==
    [result |-> TRUE, patched |-> TRUE,
     pod |-> [pod EXCEPT !.status = RunningStatusPatch(pod) @@ pod.status]]

\* sync_mutated_pod_status: what it returns, whether it called
\* patch_namespaced_pod_status, and the pod after the call
SyncMutatedPodStatus(pod) ==
    IF ~IsMutated(pod) THEN [result |-> FALSE, patched |-> FALSE, pod |-> pod]
    ELSE IF pod.status.phase = "Pending"
    THEN [result |-> TRUE, patched |-> TRUE,
          pod |-> [pod EXCEPT !.status = RunningStatusPatch(pod) @@ pod.status]]
    ELSE [result |-> FALSE, patched |-> FALSE, pod |-> pod]

\* sync_pod_status: the timer on the pods annotated mutated=true
SyncPodStatus(p) ==
    /\ p \in DOMAIN pods
    /\ IsMutated(pods[p])
    /\ pods' = [pods EXCEPT ![p] = SyncMutatedPodStatus(@).pod]
    /\ UNCHANGED <<servers, metrics, original, podHandlers, crs, createLog, deleted, apps, stopCalls, services>>

LblTouched == "app.kubernetes.io/part-of"

\* a user labels a mutated pod, which is an update event for pod_updated
TouchPod(p) ==
    /\ p \in DOMAIN pods
    /\ IsMutated(pods[p])
    /\ ~Has(Labels(pods[p]), LblTouched)
    /\ pods' = [pods EXCEPT ![p].metadata =
                   Put(@, "labels", Put(Get(@, "labels", <<>>), LblTouched, "ml"))]
    /\ podHandlers' = [podHandlers EXCEPT ![p].update = TRUE]
    /\ UNCHANGED <<servers, metrics, original, crs, createLog, deleted, apps, stopCalls, services>>

\* pod_updated: the immediate sync on an update of a mutated pod
PodUpdated(p) ==
    /\ p \in DOMAIN pods
    /\ podHandlers[p].update
    /\ pods' = [pods EXCEPT ![p] = SyncMutatedPodStatus(@).pod]
    /\ podHandlers' = [podHandlers EXCEPT ![p].update = FALSE]
    /\ UNCHANGED <<servers, metrics, original, crs, createLog, deleted, apps, stopCalls, services>>

(***************************************************************************)
(* The system.                                                             *)
(***************************************************************************)
Outcomes == {"succeeded", "failed"}

PodStep ==
    \E p \in PodNames :
        \/ \E t \in PodTemplates, webhook \in BOOLEAN : SubmitPod(p, t, webhook)
        \/ PodCreated(p)
        \/ MutatedPodCheck(p)
        \/ MutatedPodCreate(p)
        \/ SyncPodStatus(p)
        \/ TouchPod(p)
        \/ PodUpdated(p)

UserStep ==
    \E key \in Keys :
        \/ \E spec \in UserSpecs(key[1]) : UserCreateCR(key, spec)
        \/ UserUpdateCR(key)
        \/ UserDeleteCR(key)

Reconcile(key) ==
        \/ \E done \in 0..MaxReplicas, patch_ok \in BOOLEAN : CreateModalJob(key, done, patch_ok)
        \/ UpdateModalJob(key)
        \/ DeleteModalJob(key)
        \/ \E backend_ok \in BOOLEAN, service_ok \in BOOLEAN :
               CreateModalFunction(key, backend_ok, service_ok)
        \/ DeleteModalFunction(key)
        \/ \E backend_ok \in BOOLEAN, patch_ok \in BOOLEAN, list_ok \in BOOLEAN :
               CreateModalEndpoint(key, backend_ok, patch_ok, list_ok)
        \/ DeleteModalEndpoint(key)

ReconcileStep == \E key \in Keys : Reconcile(key)

BackendStep ==
    \E i \in 1..Len(apps), outcome \in Outcomes : RemoteComplete(i, outcome)

Next ==
    \/ PodStep
    \/ UserStep
    \/ ReconcileStep
    \/ BackendStep

Spec == Init /\ [][Next]_vars

\* the create handlers of the pods, and the synchronizer
PodHandlerStep == \E p \in PodNames : PodCreated(p) \/ MutatedPodCheck(p) \/ MutatedPodCreate(p)

SyncStep == \E p \in PodNames : SyncPodStatus(p) \/ PodUpdated(p)

\* the handlers and the timer of the operator run when they can; the user
\* and the backend are free
FairSpec ==
    /\ Spec
    /\ WF_vars(PodHandlerStep)
    /\ WF_vars(SyncStep)
    /\ WF_vars(ReconcileStep)


(***************************************************************************)
(* The webhook server on its own: the API server posts a body to /mutate,  *)
(* the server answers it, and the API server may send the pod it patched   *)
(* to the webhook again.                                                   *)
(***************************************************************************)
MaxAdmissions == 2

WebhookInit ==
    /\ ClusterInit
    /\ review \in {Review(b, "received", NoAnswer, 1) : b \in AdmissionBodies}
    /\ conn = NoConn
    /\ gw = NoExchange
    /\ streamer = NoStreamer
    /\ other = NoConn
    /\ train = NoTrain
    /\ sync = NoSync

\* webhook_handler answers the body
ServeReview ==
    /\ review.state = "received"
    /\ review' = [review EXCEPT !.state = "answered", !.answer = WebhookHandler(review.body)]
    /\ UNCHANGED <<cluster, sync, other, train, conn, gw, streamer>>

\* the pod of a body, or the empty dict
ObjectOf(body) == IF body.kind = "request" THEN Get(body.request, "object", <<>>) ELSE <<>>

\* the pod after the API server applied the answer to it
Patched(doc, answer) ==
    IF answer.allowed /\ answer.hasPatch THEN ApplyPatches(doc, answer.patch)
    ELSE [ok |-> answer.allowed, doc |-> doc]

\* the API server applied the patch and sends the pod to the webhook again
\* (a reinvocation, or a later admission of the stored pod)
AdmitAgain ==
    /\ review.state = "answered"
    /\ review.admissions < MaxAdmissions
    /\ review.answer.allowed
    /\ \E r \in {Patched(ObjectOf(review.body), review.answer)} :
           /\ r.ok
           /\ review' = Review(Body("request", Put(review.body.request, "object", r.doc)),
                               "received", NoAnswer, review.admissions + 1)
    /\ UNCHANGED <<cluster, sync, other, train, conn, gw, streamer>>

WebhookNext == ServeReview \/ AdmitAgain

WebhookSpec == WebhookInit /\ [][WebhookNext]_vars

(***************************************************************************)
(* The status synchronizer on one mutated pod: the 30 s timer              *)
(* (sync_pod_status), the update handler (pod_updated), a user who labels  *)
(* the pod, and another writer of the pod's status.  Whether a patch of    *)
(* the status alone is an update event for pod_updated is decided by the   *)
(* framework: both outcomes are followed.                                  *)
(***************************************************************************)
MaxResets == 2
MaxPatches == 4

\* the pods the webhook mutated
MutatedDocs ==
    {adm.doc : adm \in {r \in {Admitted(d, TRUE) : d \in AdmissionPods} :
                           r.ok /\ IsMutated(r.doc)}}

SyncInit ==
    /\ ClusterInit
    /\ review = NoReview
    /\ conn = NoConn
    /\ gw = NoExchange
    /\ streamer = NoStreamer
    /\ other = NoConn
    /\ train = NoTrain
    /\ sync \in {Watched(d, FALSE, 0, 0, "none", FALSE) : d \in MutatedDocs}

\* sync_pod_status: the timer
TimerSync(event) ==
    /\ \E r \in {SyncMutatedPodStatus(sync.pod)} :
           /\ r.patched => sync.patches < MaxPatches
           /\ sync' = [sync EXCEPT !.pod = r.pod,
                                   !.patches = IF r.patched THEN @ + 1 ELSE @,
                                   !.update = @ \/ (r.patched /\ event),
                                   !.last = "timer", !.patched = r.patched]
    /\ UNCHANGED <<cluster, review, conn, gw, streamer, other, train>>

\* pod_updated: the immediate sync on an update event
UpdateSync(event) ==
    /\ sync.update
    /\ \E r \in {SyncMutatedPodStatus(sync.pod)} :
           /\ r.patched => sync.patches < MaxPatches
           /\ sync' = [sync EXCEPT !.pod = r.pod,
                                   !.patches = IF r.patched THEN @ + 1 ELSE @,
                                   !.update = r.patched /\ event,
                                   !.last = "update", !.patched = r.patched]
    /\ UNCHANGED <<cluster, review, conn, gw, streamer, other, train>>

\* a user labels the pod: an update event
LabelPod ==
    /\ ~Has(Labels(sync.pod), LblTouched)
    /\ sync' = [sync EXCEPT !.pod.metadata =
                    Put(@, "labels", Put(Get(@, "labels", <<>>), LblTouched, "ml")),
                            !.update = TRUE]
    /\ UNCHANGED <<cluster, review, conn, gw, streamer, other, train>>

\* another writer (the kubelet of the node) sets the phase back to Pending
ResetPhase(event) ==
    /\ sync.resets < MaxResets
    /\ sync.pod.status.phase # "Pending"
    /\ sync' = [sync EXCEPT !.pod.status.phase = "Pending",
                            !.resets = @ + 1,
                            !.update = @ \/ event]
    /\ UNCHANGED <<cluster, review, conn, gw, streamer, other, train>>

SyncNext ==
    \/ \E event \in BOOLEAN : TimerSync(event) \/ UpdateSync(event) \/ ResetPhase(event)
    \/ LabelPod

SyncSpec == SyncInit /\ [][SyncNext]_vars

\* pod_updated runs when an update event waits for it
FairSyncSpec == SyncSpec /\ WF_vars(\E event \in BOOLEAN : UpdateSync(event))

(***************************************************************************)
(* The TrainJob controller: users create and update TrainJobs, kopf runs   *)
(* handle_trainjob for every create and every update event.                *)
(***************************************************************************)
MaxUpdates == 2
MaxRetries == 2

TrainJobNames == {"bert"}

TrainJobSpecs ==
    { TrainJobSpec(r, h, e, a) :
        r \in {NONE, "modal-pytorch-runtime", "standard-runtime"},
        h \in BOOLEAN, e \in {<<>>, <<"MODAL_ENABLED">>, <<"EPOCHS">>},
        a \in BOOLEAN }

ValidTrainJobSpecs == {sp \in TrainJobSpecs : sp.hasEnv \/ sp.env = <<>>}

UserCreateTrainJob(name, spec) ==
    /\ name \notin DOMAIN train.jobs
    /\ train' = [train EXCEPT !.jobs = Put(@, name, TrainJob(spec, "create", 0, 0))]
    /\ UNCHANGED <<cluster, sync, review, conn, gw, streamer, other>>

\* an update of the spec, once the handler of the event before is done
UserUpdateTrainJob(name, spec) ==
    /\ name \in DOMAIN train.jobs
    /\ train.jobs[name].pending = "none"
    /\ train.jobs[name].updates < MaxUpdates
    /\ spec # train.jobs[name].spec
    /\ train' = [train EXCEPT !.jobs[name] =
                     TrainJob(spec, "update", @.updates + 1, 0)]
    /\ UNCHANGED <<cluster, sync, review, conn, gw, streamer, other>>

\* handle_trainjob, for the create or the update event; created: create_job
\* returned, else it raised and kopf runs the handler again
HandleTrainjob(name, created) ==
    /\ name \in DOMAIN train.jobs
    /\ train.jobs[name].pending # "none"
    /\ LET job     == train.jobs[name]
           outcome == HandleOutcome(job.spec)
           raised  == outcome = "raise" \/ (outcome = "create" /\ ~created)
       IN  /\ raised => job.retries < MaxRetries
           /\ train' =
                [jobs  |-> Put(train.jobs, name,
                               IF raised THEN [job EXCEPT !.retries = @ + 1]
                               ELSE [job EXCEPT !.pending = "none"]),
                 calls |-> IF outcome = "create"
                           THEN Append(train.calls,
                                       [name |-> TrainJobName(name), spec |-> job.spec,
                                        event |-> job.pending, ok |-> created])
                           ELSE train.calls]
    /\ UNCHANGED <<cluster, sync, review, conn, gw, streamer, other>>

TrainNext ==
    \E name \in TrainJobNames :
        \/ \E spec \in ValidTrainJobSpecs : UserCreateTrainJob(name, spec)
        \/ \E spec \in ValidTrainJobSpecs : UserUpdateTrainJob(name, spec)
        \/ \E created \in BOOLEAN : HandleTrainjob(name, created)

TrainSpec == Init /\ [][TrainNext]_vars

(***************************************************************************)
(* The webhook server before pods of every shape: the API server leaves    *)
(* out of a pod the maps and lists it has nothing to put in, so a pod may  *)
(* have no metadata.annotations and no spec.volumes (a service account     *)
(* that mounts no token), as it may have no metadata.labels, dnsPolicy or  *)
(* hostNetwork.                                                            *)
(***************************************************************************)
Without(d, key) == [k \in DOMAIN d \ {key} |-> d[k]]

\* the shapes of a pod: with and without the annotations map (left out only
\* when the pod has no annotation), with and without the volumes list
Shapes(doc) ==
    LET metas == {doc.metadata} \cup
                 (IF DOMAIN doc.metadata.annotations = {}
                  THEN {Without(doc.metadata, "annotations")} ELSE {})
        specs == {doc.spec, Without(doc.spec, "volumes")}
    IN  {[doc EXCEPT !.metadata = m, !.spec = sp] : m \in metas, sp \in specs}

ShapedPods == UNION {Shapes(d) : d \in AdmissionPods}

ShapeInit ==
    /\ ClusterInit
    /\ review \in {Review(Body("request", AdmissionRequest(u, TRUE, d)), "received", NoAnswer, 1) :
                      u \in Uids, d \in ShapedPods}
    /\ conn = NoConn
    /\ gw = NoExchange
    /\ streamer = NoStreamer
    /\ other = NoConn
    /\ train = NoTrain
    /\ sync = NoSync

ShapeSpec == ShapeInit /\ [][WebhookNext]_vars


(***************************************************************************)
(* The SOCKS5 proxy on its own: handle_client on one connection, with the  *)
(* client and the target as the environment.                               *)
(***************************************************************************)
\* the positions at which the handler awaits reader.read(n), and n
ReadSize ==
    [handshake |-> 2, methods |-> conn.n_methods, request |-> 4, ipv4 |-> 4,
     addr_len |-> 1, domain |-> conn.addr_len, port |-> 2]

AtRead == conn.pc \in DOMAIN ReadSize

\* read(n) returns: n = 0, bytes have arrived, or EOF
Readable == AtRead /\ (ReadSize[conn.pc] = 0 \/ Len(conn.buf) > 0 \/ conn.eof)

\* the handler is suspended, so the event loop takes input from the client
Suspended ==
    \/ AtRead /\ ~Readable
    \/ conn.pc \in {"connect", "forward"}

ProxyInit ==
    /\ ClusterInit
    /\ review = NoReview
    /\ conn \in {NewConn(script) : script \in ClientScripts}
    /\ gw = NoExchange
    /\ streamer = NoStreamer
    /\ other = NoConn
    /\ train = NoTrain
    /\ sync = NoSync

\* a segment of k bytes of the client arrives
Deliver(k) ==
    /\ Suspended /\ ~conn.cgone /\ ~conn.eof
    /\ k <= Len(conn.wire)
    /\ conn' = [conn EXCEPT !.buf = @ \o SubSeq(conn.wire, 1, k),
                            !.wire = SubSeq(@, k + 1, Len(@))]
    /\ UNCHANGED <<cluster, sync, other, train, review, gw, streamer>>

\* the client closes its connection
ClientClose ==
    /\ Suspended /\ ~conn.cgone /\ ~conn.eof
    /\ conn' = [conn EXCEPT !.cgone = TRUE, !.eof = TRUE]
    /\ UNCHANGED <<cluster, sync, other, train, review, gw, streamer>>

\* the target sends its bytes
TargetSend ==
    /\ conn.pc = "forward" /\ ~conn.tgone /\ ~conn.teof
    /\ Len(conn.twire) > 0
    /\ conn' = [conn EXCEPT !.tbuf = @ \o conn.twire, !.twire = <<>>]
    /\ UNCHANGED <<cluster, sync, other, train, review, gw, streamer>>

\* the target closes its connection
TargetClose ==
    /\ conn.pc = "forward" /\ ~conn.tgone /\ ~conn.teof
    /\ conn' = [conn EXCEPT !.tgone = TRUE, !.teof = TRUE, !.twire = <<>>]
    /\ UNCHANGED <<cluster, sync, other, train, review, gw, streamer>>

\* handle_client returns or raises: finally writer.close()
Finish(c) == [c EXCEPT !.pc = "done", !.closed = TRUE]

\* modal_proxy_handshake: data = await reader.read(2)
HandshakeRead ==
    /\ conn.pc = "handshake" /\ Readable
    /\ \E data \in {ReadUpTo(conn.buf, 2)}, c \in {[conn EXCEPT !.buf = AfterRead(conn.buf, 2)]} :
           conn' = IF Len(data) # 2 \/ data[1] # 5 THEN Finish(c)
                   ELSE [c EXCEPT !.pc = "methods", !.n_methods = data[2]]
    /\ UNCHANGED <<cluster, sync, other, train, review, gw, streamer>>

\* modal_proxy_handshake: methods = await reader.read(n_methods), the reply
MethodsRead ==
    /\ conn.pc = "methods" /\ Readable
    /\ \E methods \in {ReadUpTo(conn.buf, conn.n_methods)},
          c \in {[conn EXCEPT !.buf = AfterRead(conn.buf, conn.n_methods)]} :
           conn' = IF \E i \in 1..Len(methods) : methods[i] = 0
                   THEN [c EXCEPT !.out = Append(@, ReplyNoAuth), !.pc = "request"]
                   ELSE Finish([c EXCEPT !.out = Append(@, ReplyNoMethods)])
    /\ UNCHANGED <<cluster, sync, other, train, review, gw, streamer>>

\* modal_proxy_connect_request: data = await reader.read(4)
RequestRead ==
    /\ conn.pc = "request" /\ Readable
    /\ \E data \in {ReadUpTo(conn.buf, 4)},
          c \in {[conn EXCEPT !.buf = AfterRead(conn.buf, 4), !.asked = TRUE]} :
           conn' = IF Len(data) # 4 \/ data[1] # 5 \/ data[2] # 1 THEN Finish(c)
                   ELSE IF data[4] = 1 THEN [c EXCEPT !.pc = "ipv4", !.atyp = 1]
                   ELSE IF data[4] = 3 THEN [c EXCEPT !.pc = "addr_len", !.atyp = 3]
                   ELSE Finish([c EXCEPT !.atyp = data[4],
                                         !.out = Append(@, ReplyUnsupported)])
    /\ UNCHANGED <<cluster, sync, other, train, review, gw, streamer>>

\* addr_data = await reader.read(4); socket.inet_ntoa raises unless it is
\* given four bytes
Ipv4Read ==
    /\ conn.pc = "ipv4" /\ Readable
    /\ \E data \in {ReadUpTo(conn.buf, 4)}, c \in {[conn EXCEPT !.buf = AfterRead(conn.buf, 4)]} :
           conn' = IF Len(data) # 4 THEN Finish(c)
                   ELSE [c EXCEPT !.pc = "port", !.host = data]
    /\ UNCHANGED <<cluster, sync, other, train, review, gw, streamer>>

\* addr_len = (await reader.read(1))[0]: IndexError at EOF
AddrLenRead ==
    /\ conn.pc = "addr_len" /\ Readable
    /\ \E data \in {ReadUpTo(conn.buf, 1)}, c \in {[conn EXCEPT !.buf = AfterRead(conn.buf, 1)]} :
           conn' = IF Len(data) = 0 THEN Finish(c)
                   ELSE [c EXCEPT !.pc = "domain", !.addr_len = data[1]]
    /\ UNCHANGED <<cluster, sync, other, train, review, gw, streamer>>

\* addr_data = await reader.read(addr_len); host = addr_data.decode()
DomainRead ==
    /\ conn.pc = "domain" /\ Readable
    /\ \E data \in {ReadUpTo(conn.buf, conn.addr_len)},
          c \in {[conn EXCEPT !.buf = AfterRead(conn.buf, conn.addr_len)]} :
           conn' = [c EXCEPT !.pc = "port", !.host = data]
    /\ UNCHANGED <<cluster, sync, other, train, review, gw, streamer>>

\* port_data = await reader.read(2); struct.unpack raises unless it is given
\* two bytes; handle_client returns on an empty host
PortRead ==
    /\ conn.pc = "port" /\ Readable
    /\ \E data \in {ReadUpTo(conn.buf, 2)}, c \in {[conn EXCEPT !.buf = AfterRead(conn.buf, 2)]} :
           conn' = IF Len(data) # 2 \/ Len(conn.host) = 0 THEN Finish(c)
                   ELSE [c EXCEPT !.pc = "connect", !.port = data]
    /\ UNCHANGED <<cluster, sync, other, train, review, gw, streamer>>

\* the reply is the success reply whatever open_connection did
C19_AlwaysSuccess(ok) == ReplySuccess

\* the reply that follows asyncio.open_connection
ConnectReply(ok) == IF ok THEN ReplySuccess ELSE ReplyRefused

\* await asyncio.open_connection(target_host, target_port) returns or raises
OpenConnection(ok) ==
    /\ conn.pc = "connect"
    /\ conn' = IF ok THEN [conn EXCEPT !.pc = "connected", !.target = "open"]
               ELSE Finish([conn EXCEPT !.target = "refused",
                                        !.out = Append(@, ConnectReply(FALSE))])
    /\ UNCHANGED <<cluster, sync, other, train, review, gw, streamer>>

\* the success reply, and asyncio.gather starts the two forwarders
SuccessReply ==
    /\ conn.pc = "connected"
    /\ conn' = [conn EXCEPT !.out = Append(@, ConnectReply(TRUE)), !.pc = "forward",
                            !.c2t = "run", !.t2c = "run"]
    /\ UNCHANGED <<cluster, sync, other, train, review, gw, streamer>>

\* the forwarder ends and leaves the other side open
C20_LeavesOpen(c) == [c EXCEPT !.c2t = "end"]

\* forward_data's finally: writer.close() on the target's writer; the
\* transport then feeds EOF to the target's reader
CloseTarget(c) == [c EXCEPT !.c2t = "end", !.tclosed = TRUE, !.teof = TRUE]

\* forward_data's finally on the client's writer
CloseClient(c) == [c EXCEPT !.t2c = "end", !.closed = TRUE, !.eof = TRUE]

\* forward_data(reader, target_writer): one turn of the loop.  A write to a
\* target that has closed is dropped or raises.
ForwardToTarget(raises) ==
    /\ conn.pc = "forward" /\ conn.c2t = "run"
    /\ Len(conn.buf) > 0 \/ conn.eof
    /\ raises => (Len(conn.buf) > 0 /\ conn.tgone)
    /\ conn' = IF Len(conn.buf) = 0 THEN CloseTarget(conn)
               ELSE IF raises THEN CloseTarget([conn EXCEPT !.buf = <<>>])
               ELSE IF conn.tgone \/ conn.tclosed THEN [conn EXCEPT !.buf = <<>>]
               ELSE [conn EXCEPT !.buf = <<>>, !.toTarget = @ \o conn.buf]
    /\ UNCHANGED <<cluster, sync, other, train, review, gw, streamer>>

\* forward_data(target_reader, writer): one turn of the loop
ForwardToClient(raises) ==
    /\ conn.pc = "forward" /\ conn.t2c = "run"
    /\ Len(conn.tbuf) > 0 \/ conn.teof
    /\ raises => (Len(conn.tbuf) > 0 /\ conn.cgone)
    /\ conn' = IF Len(conn.tbuf) = 0 THEN CloseClient(conn)
               ELSE IF raises THEN CloseClient([conn EXCEPT !.tbuf = <<>>])
               ELSE IF conn.cgone \/ conn.closed THEN [conn EXCEPT !.tbuf = <<>>]
               ELSE [conn EXCEPT !.tbuf = <<>>, !.out = Append(@, conn.tbuf)]
    /\ UNCHANGED <<cluster, sync, other, train, review, gw, streamer>>

\* asyncio.gather returns; finally writer.close()
GatherDone ==
    /\ conn.pc = "forward" /\ conn.c2t = "end" /\ conn.t2c = "end"
    /\ conn' = Finish(conn)
    /\ UNCHANGED <<cluster, sync, other, train, review, gw, streamer>>

\* the steps of handle_client
HandleClient ==
    \/ HandshakeRead
    \/ MethodsRead
    \/ RequestRead
    \/ Ipv4Read
    \/ AddrLenRead
    \/ DomainRead
    \/ PortRead
    \/ \E ok \in BOOLEAN : OpenConnection(ok)
    \/ SuccessReply
    \/ \E raises \in BOOLEAN : ForwardToTarget(raises)
    \/ \E raises \in BOOLEAN : ForwardToClient(raises)
    \/ GatherDone

\* the client and the target
Peers ==
    \/ \E k \in 1..Len(conn.wire) : Deliver(k)
    \/ ClientClose
    \/ TargetSend
    \/ TargetClose

ProxyNext == HandleClient \/ Peers

ProxySpec == ProxyInit /\ [][ProxyNext]_vars

\* the event loop runs the handler whenever it can go on; the peers are free
FairProxySpec == ProxySpec /\ WF_vars(HandleClient)


(***************************************************************************)
(* The SOCKS5 proxy with two connections.  asyncio.start_server starts one *)
(* handle_client task per accepted connection; `conn` is the connection    *)
(* whose task or peers act next and `other` the second one.  The event     *)
(* loop may turn to the other connection between any two steps.            *)
(***************************************************************************)
\* the two clients: CONNECT 10.0.0.7:80 and CONNECT db:5432, each followed
\* by a payload byte of its own
FirstScript  == <<5, 1, 0>> \o <<5, 1, 0, 1, 10, 0, 0, 7, 0, 80>> \o <<71>>
SecondScript == <<5, 1, 0>> \o <<5, 1, 0, 3, 2, 100, 98, 21, 56>> \o <<73>>

\* what the second target sends once connected
SecondTargetBytes == <<74>>

PairInit ==
    /\ ClusterInit
    /\ review = NoReview
    /\ conn = NewConn(FirstScript)
    /\ gw = NoExchange
    /\ streamer = NoStreamer
    /\ other = [NewConn(SecondScript) EXCEPT !.twire = SecondTargetBytes]
    /\ train = NoTrain
    /\ sync = NoSync

\* the event loop turns to the other connection: each task keeps its own
\* reader, writer and locals
Switch ==
    /\ conn' = other
    /\ other' = conn
    /\ UNCHANGED <<cluster, sync, train, review, gw, streamer>>

PairNext == HandleClient \/ Peers \/ Switch

PairSpec == PairInit /\ [][PairNext]_vars

(***************************************************************************)
(* The endpoint reconciler on its own: a user creates a ModalEndpoint,     *)
(* deletes it and creates it again under the same name.                    *)
(***************************************************************************)
MaxDeploys == 3

EndpointKey == <<"ModalEndpoint", ModalName("p1")>>

\* a user creates the ModalEndpoint, for the first time or again
UserDeploy(spec) ==
    /\ EndpointKey \notin DOMAIN crs
    /\ Len(createLog) < MaxDeploys
    /\ StoreCR(EndpointKey, spec, "user", NONE)
    /\ UNCHANGED <<servers, metrics, pods, original, podHandlers, deleted, apps, stopCalls, services>>

DeployNext ==
    \/ \E spec \in UserEndpointSpecs : UserDeploy(spec)
    \/ \E backend_ok \in BOOLEAN, patch_ok \in BOOLEAN, list_ok \in BOOLEAN :
           CreateModalEndpoint(EndpointKey, backend_ok, patch_ok, list_ok)
    \/ UserDeleteCR(EndpointKey)
    \/ DeleteModalEndpoint(EndpointKey)

DeploySpec == Init /\ [][DeployNext]_vars

(***************************************************************************)
(* The metrics collector on its own: its four record_job_* methods called  *)
(* for two jobs in any order.                                              *)
(***************************************************************************)
MaxCalls == 4

JobNames == {"lifecycle-test", "p1-modal"}

\* the gpu type its callers pass for a job
JobGpu(job_name) == IF job_name = "lifecycle-test" THEN "A100" ELSE NONE

RecordCall(op, job_name) ==
    /\ Len(metrics.calls) < MaxCalls
    /\ LET m == CASE op = "queued"    -> RecordJobQueued(metrics, job_name)
                   [] op = "started"   -> RecordJobStarted(metrics, job_name, JobGpu(job_name))
                   [] op = "created"   -> RecordJobCreated(metrics, job_name, JobGpu(job_name))
                   [] op = "completed" -> RecordJobCompleted(metrics, job_name, JobGpu(job_name))
       IN  metrics' = Called(m, op, job_name)
    /\ UNCHANGED <<servers, pods, original, podHandlers, crs, createLog, deleted, apps,
                   stopCalls, services>>

MetricsNext ==
    \E job_name \in JobNames :
        \/ RecordCall("queued", job_name)
        \/ RecordCall("started", job_name)
        \/ RecordCall("created", job_name)
        \/ RecordCall("completed", job_name)

MetricsSpec == Init /\ [][MetricsNext]_vars

(***************************************************************************)
(* The pod-watch path on its own.  mutated_pod_created is selected by the  *)
(* annotation alone: besides the pods the webhook mutated, a pod arrives   *)
(* that carries the annotation and a first container whose env holds the   *)
(* capsule at the positions the handler reads.  Users create and delete    *)
(* CRs of the same names between the steps of the handlers.                *)
(***************************************************************************)
\* the env of such a first container: positions 2..6 (from 0) hold the five
\* JSON values
CapsuleAsRead(pod_name, cs) ==
    << EnvVar("POD_NAME", pod_name),
       EnvFrom("POD_NAMESPACE"),
       EnvJson("ORIGINAL_IMAGES", Dumps(AllImages(cs))),
       EnvJson("ORIGINAL_NAMES", Dumps(AllNames(cs))),
       EnvJson("ORIGINAL_COMMANDS", Dumps(AllCommands(cs))),
       EnvJson("ORIGINAL_ARGS", Dumps(AllArgs(cs))),
       EnvJson("ORIGINAL_ENV", Dumps(AllEnv(cs))) >>

MarkedPod(p) ==
    PodDoc(p, AnnMutated :> "true", "absent",
           << [LoggerContainer(p, <<CudaContainer>>) EXCEPT
                  !.env = CapsuleAsRead(p, <<CudaContainer>>)],
              ProxyContainer(p) >>)

\* the API server stores the marked pod; no webhook is involved
SubmitMarked(p) ==
    /\ p \notin DOMAIN pods
    /\ pods' = Put(pods, p, MarkedPod(p))
    /\ original' = Put(original, p, MarkedPod(p))
    /\ podHandlers' = [podHandlers EXCEPT ![p] =
           [legacy |-> "pending", mutated |-> "pending", attempts |-> 0, update |-> FALSE]]
    /\ UNCHANGED <<servers, metrics, crs, createLog, deleted, apps, stopCalls, services>>

InterceptStep ==
    \E p \in PodNames :
        \/ SubmitMarked(p)
        \/ \E t \in PodTemplates, webhook \in BOOLEAN : SubmitPod(p, t, webhook)
        \/ PodCreated(p)
        \/ MutatedPodCheck(p)
        \/ MutatedPodCreate(p)

InterceptNext ==
    \/ InterceptStep
    \/ UserStep
    \/ ReconcileStep

InterceptSpec == Init /\ [][InterceptNext]_vars

(***************************************************************************)
(* The log streamer beside the reconcilers: a user creates and deletes the *)
(* CRs named p1-modal, the reconcilers set their status, the streamer of   *)
(* the pod p1 polls them.                                                  *)
(***************************************************************************)
StreamerInit ==
    /\ ClusterInit
    /\ review = NoReview
    /\ conn = NoConn
    /\ gw = NoExchange
    /\ streamer = NewStreamer
    /\ other = NoConn
    /\ train = NoTrain
    /\ sync = NoSync

\* modaljob_name
SiblingName == ModalName("p1")

\* get_namespaced_custom_object(...).get("status", {}).get("modal_app_id"):
\* the app id, or 0 for None and for an ApiException (404: no such object,
\* or another status when api_error)
GetAppId(kind, api_error) ==
    IF api_error \/ <<kind, SiblingName>> \notin DOMAIN crs THEN 0
    ELSE Get(crs[<<kind, SiblingName>>].status, "modal_app_id", 0)

\* wait_for_modal_resource: the ModalJob is tried first
GetModalJob(api_error) ==
    /\ streamer.pc = "get_job"
    /\ LET app_id == GetAppId("ModalJob", api_error) IN
       streamer' = IF Found(app_id)
                   THEN [streamer EXCEPT !.pc = "found", !.app_id = app_id,
                                         !.resource_type = "ModalJob"]
                   ELSE [streamer EXCEPT !.pc = "get_endpoint"]
    /\ UNCHANGED <<cluster, sync, other, train, review, conn, gw>>

\* wait_for_modal_resource: then the ModalEndpoint
GetModalEndpoint(api_error) ==
    /\ streamer.pc = "get_endpoint"
    /\ LET app_id == GetAppId("ModalEndpoint", api_error) IN
       streamer' = IF Found(app_id)
                   THEN [streamer EXCEPT !.pc = "found", !.app_id = app_id,
                                         !.resource_type = "ModalEndpoint"]
                   ELSE [streamer EXCEPT !.pc = "sleep", !.delay = PollInterval]
    /\ UNCHANGED <<cluster, sync, other, train, review, conn, gw>>

\* asyncio.sleep(2) is over: the next round
Sleep ==
    /\ streamer.pc = "sleep"
    /\ streamer' = [streamer EXCEPT !.pc = "get_job", !.delay = 0]
    /\ UNCHANGED <<cluster, sync, other, train, review, conn, gw>>

\* run, after wait_for_modal_resource returned: exit without an app id,
\* else stream_logs starts `modal app logs <app_id>`
StreamLogs ==
    /\ streamer.pc = "found"
    /\ streamer' = IF ~Found(streamer.app_id)
                   THEN [streamer EXCEPT !.pc = "exited"]
                   ELSE [streamer EXCEPT !.pc = "streaming", !.streamed = streamer.app_id]
    /\ UNCHANGED <<cluster, sync, other, train, review, conn, gw>>

\* stream_logs is over: the output of the log process ended, or Popen, the
\* reading, print or wait raised an Exception
LogsEnd(ended) ==
    /\ streamer.pc = "streaming"
    /\ streamer' = [streamer EXCEPT !.pc = AfterStream(ended), !.ended = ended]
    /\ UNCHANGED <<cluster, sync, other, train, review, conn, gw>>

\* run, "while True: await asyncio.sleep(3600)": the sleep starts
KeepRunning ==
    /\ streamer.pc = "completed"
    /\ streamer' = [streamer EXCEPT !.pc = "resting", !.delay = KeepAlive]
    /\ UNCHANGED <<cluster, sync, other, train, review, conn, gw>>

\* the sleep is over: back to the head of the loop
Wake ==
    /\ streamer.pc = "resting"
    /\ streamer' = [streamer EXCEPT !.pc = "completed", !.delay = 0]
    /\ UNCHANGED <<cluster, sync, other, train, review, conn, gw>>

StreamerStep ==
    \/ \E api_error \in BOOLEAN : GetModalJob(api_error)
    \/ \E api_error \in BOOLEAN : GetModalEndpoint(api_error)
    \/ Sleep
    \/ StreamLogs
    \/ \E ended \in {"eof", "error"} : LogsEnd(ended)
    \/ KeepRunning
    \/ Wake

StreamerNext ==
    \/ UserStep
    \/ ReconcileStep
    \/ StreamerStep

StreamerSpec == StreamerInit /\ [][StreamerNext]_vars

(***************************************************************************)
(* The HTTP gateway on its own: a caller sends one request to one of the   *)
(* two routes, the gateway serves it.                                      *)
(***************************************************************************)
GatewayInit ==
    /\ ClusterInit
    /\ review = NoReview
    /\ conn = NoConn
    /\ gw \in {Exchange(route, parser, lines, json_ok, has_cr, "received", NoCall, "none",
                           NoResponse) :
                  route \in {"function", "api"}, parser \in {"c", "py"},
                  lines \in HeaderLists, json_ok \in BOOLEAN, has_cr \in BOOLEAN}
    /\ streamer = NoStreamer
    /\ other = NoConn
    /\ train = NoTrain
    /\ sync = NoSync

Served(done, upstream) ==
    [gw EXCEPT !.pc = "served", !.call = done.call, !.response = done.response,
               !.upstream = IF done.call.made THEN upstream ELSE "none"]

\* POST /modal-function/{function_name}
ServeFunction(upstream) ==
    /\ gw.pc = "received"
    /\ gw.route = "function"
    /\ gw' = Served(CallModalFunction(gw.function_name, ParsedHeaders(gw.parser, gw.lines),
                                      gw.json_ok, upstream), upstream)
    /\ UNCHANGED <<cluster, sync, other, train, review, conn, streamer>>

\* /modal/{path}
ServeApi(upstream) ==
    /\ gw.pc = "received"
    /\ gw.route = "api"
    /\ gw' = Served(ProxyModalApi("v1/apps", ParsedHeaders(gw.parser, gw.lines), upstream),
                  upstream)
    /\ UNCHANGED <<cluster, sync, other, train, review, conn, streamer>>

GatewayNext ==
    \/ \E upstream \in {"ok", "fail"} : ServeFunction(upstream)
    \/ \E upstream \in {"ok", "fail"} : ServeApi(upstream)

GatewaySpec == GatewayInit /\ [][GatewayNext]_vars


(***************************************************************************)
(* Properties.                                                             *)
(***************************************************************************)
MutatedPods == {p \in DOMAIN pods : IsMutated(pods[p])}

\* the CR mutated_pod_created is to create for pod p
SiblingKey(p) == <<InterceptKind(WorkloadType(pods[p])), ModalName(p)>>

\* the creations a handler made for pod p
CreatedFor(p, handlers) ==
    {i \in 1..Len(createLog) : createLog[i].pod = p /\ createLog[i].by \in handlers}

\* mutated_pod_created has run to its end at least once for pod p
Intercepted(p) ==
    p \in MutatedPods /\ (podHandlers[p].attempts >= 1 \/ podHandlers[p].mutated = "done")

\* C1: for every pod annotated mutated=true, once mutated_pod_created has
\* run (retries included) a CR named <pod>-modal of the kind selected by the
\* workload type has been created, and the handler never creates a second.
C1_ExactlyOneSibling ==
    \A p \in MutatedPods :
        /\ Intercepted(p) => \E i \in 1..Len(createLog) : createLog[i].key = SiblingKey(p)
        /\ Cardinality(CreatedFor(p, {"mutated_pod_created"})) <= 1

\* the argv of a container or of a spec: command followed by args
Argv(x) == Get(x, "command", <<>>) \o Get(x, "args", <<>>)

\* C2: for every pod admitted by the mutator, the image and the argv of its
\* first container arrive unchanged in the spec mutated_pod_created builds
\* from the mutated pod, in the CR it creates, and in the backend create call
\* made for that CR.
C2_CapsuleRoundTrip ==
    \A p \in MutatedPods :
        LET first == original[p].spec.containers[1]
            built == InterceptedSpec(pods[p], WorkloadType(pods[p]))
        IN  /\ Intercepted(p) /\ ~IsMutated(original[p]) =>
                /\ built.err = NONE
                /\ StoredSpec(built.spec).image = first.image
                /\ Argv(StoredSpec(built.spec)) = Argv(first)
            /\ \A i \in CreatedFor(p, {"mutated_pod_created"}) :
                \A a \in 1..Len(apps) :
                    apps[a].uid = i =>
                        apps[a].image = first.image /\ Argv(apps[a]) = Argv(first)

\* C3: pod_created creates no ModalJob for a pod annotated mutated=true; for
\* every pod the two pod-created handlers together create at most one CR,
\* and at most one backend create call is made for it.
C3_LegacySkipsMutated ==
    \A p \in DOMAIN pods :
        LET made == CreatedFor(p, {"pod_created", "mutated_pod_created"}) IN
        /\ p \in MutatedPods => CreatedFor(p, {"pod_created"}) = {}
        /\ Cardinality(made) <= 1
        /\ Cardinality({a \in 1..Len(apps) : apps[a].uid \in made}) <= 1

\* a mutated pod that asks for offloading, after pod_created has run
C3_Witness ==
    \E p \in MutatedPods :
        /\ ShouldOffload(pods[p])
        /\ podHandlers[p].legacy = "done"
        /\ podHandlers[p].attempts >= 1


\* the successful backend create calls made for the CR of that uid
SuccessfulCreates(uid) == {a \in 1..Len(apps) : apps[a].uid = uid /\ apps[a].ok}

\* the remote app ids a status records
AppIdsOf(status) ==
    (IF Has(status, "modal_app_id") THEN {status.modal_app_id} ELSE {})
        \cup (IF Has(status, "create_modal_function")
                 /\ Has(status.create_modal_function, "modal_app_id")
              THEN {status.create_modal_function.modal_app_id} ELSE {})

\* C4: the remote app id in a CR's status is unset or the id returned by the
\* first successful backend create call for that CR
C4_AppIdIsFirstCreate ==
    \A key \in DOMAIN crs :
        \A id \in AppIdsOf(crs[key].status) :
            /\ id \in SuccessfulCreates(crs[key].uid)
            /\ \A a \in SuccessfulCreates(crs[key].uid) : id <= a

\* C4: once set, the remote app id of a CR is never changed or cleared
C4_AppIdKept ==
    \A key \in DOMAIN crs :
        (key \in DOMAIN crs' /\ crs'[key].uid = crs[key].uid) =>
            AppIdsOf(crs[key].status) \subseteq AppIdsOf(crs'[key].status)

\* C4: for every CR and every sequence of create, update and delete events
\* and of successful or failing status patches, status.modal_app_id is unset
\* or the first successful create's id, and once set never changes.
C4_AppIdImmutable == [](C4_AppIdIsFirstCreate) /\ [][C4_AppIdKept]_vars

\* a CR whose remote app id is set, after an update was handled and while
\* its deletion is under way
C4_Witness ==
    \E key \in DOMAIN crs :
        /\ Has(crs[key].status, "modal_app_id")
        /\ Get(crs[key].spec, "timeout", 0) = UpdatedTimeout
        /\ ~crs[key].updatePending
        /\ crs[key].deleting

\* C5: whenever the backend create call for a CR succeeded, the deletion of
\* that CR comes with a stop call (cancel_job or delete_app) for that remote
\* app: no remote app is left without a stop call once its CR is deleted.
C5_DeleteStopsRemote ==
    \A uid \in deleted : SuccessfulCreates(uid) \subseteq stopCalls

HasCondition(status, value) ==
    /\ Has(status, "conditions")
    /\ \E i \in 1..Len(status.conditions) :
           /\ status.conditions[i].type = "Ready"
           /\ status.conditions[i].status = value
           /\ status.conditions[i].reason # ""

\* C6: every run of a create reconcile that ends leaves in the CR's status a
\* condition Ready=True with the remote app id, or a condition Ready=False
\* with a reason.
C6_NoSilentOutcome ==
    \A key \in DOMAIN crs :
        crs[key].handled =>
            \/ HasCondition(crs[key].status, "True") /\ Has(crs[key].status, "modal_app_id")
            \/ HasCondition(crs[key].status, "False")

JobKeys == {key \in Keys : key[1] = "ModalJob"}

Phase(key) == Get(crs[key].status, "phase", "Pending")

\* the remote job of a ModalJob in phase Running has completed
RemoteCompleted(key) ==
    /\ key \in DOMAIN crs
    /\ Phase(key) = "Running"
    /\ \E a \in AppIdsOf(crs[key].status) : apps[a].state \in Outcomes

\* C7: whenever the remote job of a ModalJob in phase Running completes, the
\* CR's phase eventually becomes Succeeded or Failed.
C7_JobReachesTerminal ==
    \A key \in JobKeys :
        RemoteCompleted(key) ~>
            (key \notin DOMAIN crs \/ Phase(key) \in {"Succeeded", "Failed"})

\* the remote job of the ModalJob <pod>-modal has completed
RemoteJobDone(p) ==
    \E a \in 1..Len(apps) :
        /\ apps[a].key = <<"ModalJob", ModalName(p)>>
        /\ apps[a].state \in Outcomes

Terminated(pod) ==
    /\ pod.status.phase \in {"Succeeded", "Failed"}
    /\ Has(pod.status, "containerStatuses")
    /\ \E i \in 1..Len(pod.status.containerStatuses) :
           pod.status.containerStatuses[i].state = "terminated"

\* C8: when the remote job of a mutated pod has reached a terminal state,
\* the synchronizer eventually writes a terminated container state and a
\* terminal phase onto the pod.
C8_PodReachesTerminal ==
    \A p \in PodNames :
        (p \in MutatedPods /\ RemoteJobDone(p)) ~> (p \in DOMAIN pods /\ Terminated(pods[p]))

\* C9: a ModalJob with replicas > 1 and enable_i6pn = false gets no remote
\* job submitted, and its reconcile ends with a failure condition.
C9_ReplicasNeedNetworking ==
    /\ \A a \in 1..Len(apps) :
           (apps[a].op = "create_job" /\ apps[a].replicas > 1 /\ ~apps[a].enable_i6pn)
               => Len(apps[a].spawns) = 0
    /\ \A key \in JobKeys \cap DOMAIN crs :
           LET job_spec == ModalJobSpec(crs[key].spec) IN
           (crs[key].handled /\ job_spec.replicas > 1 /\ ~job_spec.enable_i6pn)
               => HasCondition(crs[key].status, "False")

\* C10: a successful create of a ModalJob with replicas = n > 1 or
\* enable_i6pn makes exactly n spawn calls, of ranks 0..n-1 in turn, each
\* with world size n, RANK = its rank and WORLD_SIZE = n in its environment.
C10_RanksAndWorldSize ==
    \A a \in 1..Len(apps) :
        (apps[a].op = "create_job" /\ apps[a].ok
            /\ (apps[a].replicas > 1 \/ apps[a].enable_i6pn)) =>
            /\ apps[a].distributed
            /\ Len(apps[a].spawns) = apps[a].replicas
            /\ \A i \in 1..Len(apps[a].spawns) :
                   LET call == apps[a].spawns[i] IN
                   /\ call.rank = i - 1
                   /\ call.world_size = apps[a].replicas
                   /\ Get(call.env, "RANK", NONE) = ToString(i - 1)
                   /\ Get(call.env, "WORLD_SIZE", NONE) = ToString(apps[a].replicas)

(***************************************************************************)
(* Properties of the admission webhook.                                    *)
(***************************************************************************)
\* the review has been answered, and the answer carries a patch
Mutating == review.state = "answered" /\ review.answer.hasPatch

FirstAdmission == review.admissions = 1

\* the value of the replace of /spec/containers
NewContainers == review.answer.patch[1].value

\* the entry of that name in an env list, as a set
EnvNamed(env, n) == {env[i] : i \in {j \in 1..Len(env) : env[j].name = n}}

CapsuleNames ==
    {"ORIGINAL_IMAGES", "ORIGINAL_NAMES", "ORIGINAL_COMMANDS", "ORIGINAL_ARGS", "ORIGINAL_ENV"}

\* the logger env names the images and the names of the containers cs and
\* has the five capsule entries and MODAL_EXECUTION=true
CarriesCapsule(env, cs) ==
    /\ \A n \in CapsuleNames : \E e \in EnvNamed(env, n) : e.hasValue
    /\ \A e \in EnvNamed(env, "ORIGINAL_IMAGES") : Loads(e.value) = AllImages(cs)
    /\ \A e \in EnvNamed(env, "ORIGINAL_NAMES") : Loads(e.value) = AllNames(cs)
    /\ \E e \in EnvNamed(env, "MODAL_EXECUTION") : e.hasValue /\ e.value = Text("true")

TwoContainers(first_name) ==
    /\ review.answer.patch[1].op = "replace"
    /\ review.answer.patch[1].path = <<"spec", "containers">>
    /\ Len(NewContainers) = 2
    /\ NewContainers[1].name = first_name
    /\ NewContainers[2].name = "proxy"
    /\ CarriesCapsule(NewContainers[1].env, ObjectOf(review.body).spec.containers)

Unservable(body) ==
    \/ body.kind # "request"
    \/ ~Has(body.request, "object")
    \/ MutationError(body.request["object"]) # NONE

UidOf(body) == IF body.kind = "request" THEN Get(body.request, "uid", "") ELSE ""

\* C12: for every admission request whose pod has zero containers, whose
\* first container lacks name or image, or whose handling raises (a body that
\* cannot be parsed included), the answer is an AdmissionReview with
\* allowed=false, the uid of the request, a message with the error text, and
\* no patch.
C12_DeniesInsteadOfFailing ==
    (review.state = "answered" /\ Unservable(review.body)) =>
        /\ review.answer.admissionReview
        /\ ~review.answer.allowed
        /\ review.answer.uid = UidOf(review.body)
        /\ review.answer.message # ""
        /\ ~review.answer.hasPatch

\* the five capsule entries of the first container of a pod
CapsuleOf(doc) ==
    LET env == doc.spec.containers[1].env IN
    [n \in CapsuleNames |-> EnvNamed(env, n)]

\* C13: a pod that was already mutated is not mutated a second time: after
\* any number of admissions of the pod the capsule is the one the first
\* mutation wrote.
C13_NotMutatedTwice ==
    (review.state = "answered" /\ IsMutated(ObjectOf(review.body))) =>
        \A r \in {Patched(ObjectOf(review.body), review.answer)} :
            r.ok => CapsuleOf(r.doc) = CapsuleOf(ObjectOf(review.body))

\* the text holds the secret
Holds(text, secret) == \E i \in 1..Len(text) : text[i].v = secret

\* C14: in the mutated pod no env entry of the logger or of the proxy, the
\* capsule entries included, holds the token id or the token secret of the
\* backend; both containers mount the secret volume modal-secret read-only
\* at /etc/modal-secret.
C14_NoCredentialsInEnv ==
    (Mutating /\ FirstAdmission) =>
        \A i \in 1..Len(NewContainers) :
            /\ \A j \in 1..Len(NewContainers[i].env) :
                   /\ ~Holds(NewContainers[i].env[j].value, TokenId)
                   /\ ~Holds(NewContainers[i].env[j].value, TokenSecret)
            /\ NewContainers[i].volumeMounts = <<SecretMount>>

(***************************************************************************)
(* Properties of the status synchronizer.                                  *)
(***************************************************************************)
\* the mutated pods the synchronizer found Pending and patched
SyncedPods == {p \in MutatedPods : pods[p].status.phase = "Running"}

\* the image of the first container the user wrote
OriginalImage(p) == original[p].spec.containers[1].image

\* C15: a mutated pod whose phase was Pending is patched to phase=Running
\* with a container status ready=true, started=true and
\* state.running.startedAt = the pod's start time, podIP=10.0.0.1,
\* hostIP=modal.com and the image id modal.com/<original image>.
C15_PendingBecomesRunning ==
    \A p \in SyncedPods :
        LET status == pods[p].status
            first  == status.containerStatuses[1]
        IN  /\ first.ready /\ first.started
            /\ first.state = "running" /\ first.startedAt = original[p].status.startTime
            /\ Get(status, "podIP", NONE) = "10.0.0.1"
            /\ Get(status, "hostIP", NONE) = "modal.com"
            /\ first.imageID = "modal.com/" \o OriginalImage(p)

\* C16: on a pod whose phase already is the phase sync writes, a sync (by
\* the timer or by pod_updated) issues no status patch, reports False and
\* leaves the pod as it was.
C16_SyncIsNoOp ==
    [][\A p \in DOMAIN pods :
          (p \in SyncedPods /\ (SyncPodStatus(p) \/ PodUpdated(p))) =>
              /\ ~SyncMutatedPodStatus(pods[p]).result
              /\ ~SyncMutatedPodStatus(pods[p]).patched
              /\ pods'[p] = pods[p]]_vars

\* a mutated pod is Running, a user has labelled it, and pod_updated has
\* run on it
C16_Witness ==
    \E p \in SyncedPods : Has(Labels(pods[p]), LblTouched) /\ ~podHandlers[p].update

(***************************************************************************)
(* Properties of the SOCKS5 proxy.                                         *)
(***************************************************************************)
\* the greeting of the client: its length and the methods it offers
GreetingLen == 2 + conn.script[2]
Offered == {conn.script[i] : i \in 3..GreetingLen}

\* the number of bytes of the client that have arrived
Arrived == Len(conn.script) - Len(conn.wire)

HandshakeOver == conn.pc \notin {"idle", "handshake", "methods"}

Replied(reply) == \E i \in 1..Len(conn.out) : conn.out[i] = reply

\* C17: to a greeting of version 5 the proxy replies {5,0} and goes on to
\* the request when the methods offered include no-auth (0); otherwise it
\* replies {5,0xff}, closes the connection and reads no request.
C17_Greeting ==
    (HandshakeOver /\ conn.script[1] = 5 /\ (conn.cgone => Arrived >= GreetingLen)) =>
        IF 0 \in Offered
        THEN /\ Len(conn.out) > 0 /\ conn.out[1] = ReplyNoAuth
             /\ conn.asked \/ conn.pc = "request"
        ELSE conn.out = <<ReplyNoMethods>> /\ conn.closed /\ ~conn.asked

\* the request of the client: the four bytes after the greeting
RequestByte(i) == conn.script[GreetingLen + i]

\* C18: a CONNECT request whose address type is neither 1 nor 3 is answered
\* 05 08 00 01 00 00 00 00 00 00; no connection to a target is opened and
\* the client connection is closed.
C18_UnsupportedAddressType ==
    (/\ conn.pc = "done" /\ conn.asked
     /\ RequestByte(1) = 5 /\ RequestByte(2) = 1 /\ RequestByte(4) \notin {1, 3}
     /\ conn.cgone => Arrived >= GreetingLen + 4) =>
        /\ conn.out = <<ReplyNoAuth, ReplyUnsupported>>
        /\ conn.target = "none"
        /\ conn.closed

\* C19: the success reply is sent only when the connection to the target
\* is established, no byte of the client is forwarded before that reply,
\* and when the connection fails the proxy replies with code 5 and closes
\* the client connection without forwarding anything.
C19_ConnectOrdering ==
    /\ Replied(ReplySuccess) => conn.target = "open"
    /\ Len(conn.toTarget) > 0 => Replied(ReplySuccess)
    /\ conn.target = "refused" =>
           /\ conn.out = <<ReplyNoAuth, ReplyRefused>>
           /\ conn.pc = "done" /\ conn.closed
           /\ Len(conn.toTarget) = 0

\* the payload of the client reached the target after the success reply
C19_Witness == Replied(ReplySuccess) /\ conn.toTarget = Payload

\* the handler is over: both forwarders ended, both connections closed
HandlerOver ==
    /\ conn.pc = "done"
    /\ conn.c2t = "end" /\ conn.t2c = "end"
    /\ conn.closed /\ conn.tclosed

\* C20: once forwarding has started, when the client or the target closes
\* its side the proxy eventually closes the connection to the other side,
\* both forwarders stop and the handler terminates.
C20_ClosePropagates ==
    (conn.pc = "forward" /\ (conn.cgone \/ conn.tgone)) ~> HandlerOver

\* the target closed while the client was still connected, and the handler
\* is over
C20_Witness == HandlerOver /\ conn.tgone /\ ~conn.cgone

(***************************************************************************)
(* Properties of the HTTP gateway.                                         *)
(***************************************************************************)
\* the positions of the headers of that name in the upstream request
SentNamed(name) ==
    {i \in 1 .. Len(gw.call.headers) : Lower(gw.call.headers[i][1]) = name}

\* the caller sent a header of that name
InboundNamed(name) == \E i \in 1 .. Len(gw.lines) : Lower(gw.lines[i][1]) = name

\* C21: on both routes, however the caller spells its header names, the
\* upstream request carries exactly one Authorization value, the injected
\* Bearer <tokenId>:<tokenSecret>, and no value of the caller's own
\* Authorization header.
C21_CredentialInjection ==
    (gw.pc = "served" /\ gw.call.made) =>
        /\ Cardinality(SentNamed("authorization")) = 1
        /\ \A i \in SentNamed("authorization") : gw.call.headers[i][2] = InjectedAuth
        /\ \A i \in 1 .. Len(gw.call.headers) : gw.call.headers[i][2] \notin CallerAuth

HopByHop ==
    {"connection", "upgrade", "proxy-authenticate", "proxy-authorization", "te",
     "trailers", "transfer-encoding", "host"}

\* C22: on both routes, no hop-by-hop header of the inbound request
\* (connection, upgrade, proxy-authenticate, proxy-authorization, te,
\* trailers, transfer-encoding, host) is present in the upstream request.
C22_HopByHopStripped ==
    (gw.pc = "served" /\ gw.call.made) =>
        \A name \in HopByHop : InboundNamed(name) => SentNamed(name) = {}

\* C23: POST /modal-function/{name} with a JSON body: without a Function
\* resource carrying a function URL the answer is 404 and no upstream call
\* is made; a failed upstream call is answered 500 with an error; only a
\* successful upstream call is answered with status "success" and the name.
C23_FunctionResolution ==
    (gw.pc = "served" /\ gw.route = "function" /\ gw.json_ok) =>
        /\ ~gw.has_cr => (gw.response.status = 404 /\ ~gw.call.made)
        /\ gw.upstream = "fail" =>
               (gw.response.status = 500 /\ gw.response.kind = "error")
        /\ gw.response.kind = "success" =>
               (gw.upstream = "ok" /\ gw.response.function = gw.function_name)

(***************************************************************************)
(* Properties of the kind of the sibling CR.                               *)
(***************************************************************************)
\* the pods whose mutated_pod_created has chosen the kind of the sibling and
\* looked it up
KindChosen == {p \in MutatedPods : podHandlers[p].mutated \in {"checked", "done"}}

\* the first container of the pod as submitted, the capsule's first, has a command
FirstHasCommand(p) ==
    /\ Len(original[p].spec.containers) > 0
    /\ Len(original[p].spec.containers[1].command) > 0

FunctionFamily == {"ModalFunction", "ModalEndpoint"}

\* C24: for a mutated pod of workload type function the kind of the CR is
\* ModalEndpoint when the capsule's first container has a command and
\* ModalFunction when it has none; for workload type job it is ModalJob.
C24_KindByTypeAndCommand ==
    \A p \in KindChosen :
        InterceptKind(WorkloadType(pods[p])) =
            IF WorkloadType(pods[p]) # "function" THEN "ModalJob"
            ELSE IF FirstHasCommand(p) THEN "ModalEndpoint" ELSE "ModalFunction"

\* the workload type the pod was submitted with, NONE without the annotation
AnnotatedType(p) == Get(Annotations(original[p]), AnnWorkloadType, NONE)

\* C25: the workload-type annotation of the submitted pod is the type
\* recorded on the mutated pod and the type the CR is created for: function
\* gives a ModalFunction or ModalEndpoint, job gives a ModalJob.
C25_AnnotationVerbatim ==
    \A p \in KindChosen :
        AnnotatedType(p) \in {"job", "function"} =>
            /\ WorkloadType(pods[p]) = AnnotatedType(p)
            /\ InterceptKind(WorkloadType(pods[p])) \in
                   IF AnnotatedType(p) = "function" THEN FunctionFamily ELSE {"ModalJob"}

(***************************************************************************)
(* Properties of the legacy translation of a pod.                          *)
(***************************************************************************)
\* the CRs that pod_created made and the cluster still holds
LegacyCRs == {k \in DOMAIN crs : createLog[crs[k].uid].by = "pod_created"}

\* C26: the env of the ModalJob spec made from a pod merges the env of the
\* first container with the annotations modal-operator.io/env-<KEY>; for a
\* key that both define, the spec holds the annotation's value.
C26_AnnotationWinsEnv ==
    \A k \in LegacyCRs :
        LET pod  == original[crs[k].originalPod]
            anns == AnnotationEnv(Annotations(pod))
            cenv == pod.spec.containers[1].env
            env  == Get(crs[k].spec, "env", <<>>)
        IN  /\ \A n \in DOMAIN anns : Get(env, n, NONE) = anns[n]
            /\ \A i \in 1 .. Len(cenv) :
                   (cenv[i].hasValue /\ cenv[i].name \notin DOMAIN anns) =>
                       Get(env, cenv[i].name, NONE) = cenv[i].value[1].v

(***************************************************************************)
(* Properties of the CPU quantity.                                         *)
(***************************************************************************)
\* C27: the cpu of a CR reaches the backend as the decimal it stands for:
\* "250m" as 0.25 and "1.0" as 1.0, so that a CR with cpu "250m" is
\* submitted with 0.25 CPU and does not fail.
C27_MillicoresTranslated ==
    \A i \in 1 .. Len(apps) :
        apps[i].op = "create_job" =>
            /\ apps[i].cpu_kwarg = ExtractCpu(apps[i].cpu)
            /\ apps[i].error # "ValueError"

(***************************************************************************)
(* Properties of the endpoint reconciler.                                  *)
(***************************************************************************)
\* C28: a ModalEndpoint in phase Ready always has the ExternalName Service
\* that the reconciler creates after the deploy succeeded.
C28_ReadyEndpointHasService ==
    \A key \in DOMAIN crs :
        (key[1] = "ModalEndpoint" /\ Phase(key) = "Ready") => key[2] \in services

\* the successful deployments of create_endpoint that are still running
RunningDeployments ==
    {i \in 1 .. Len(apps) : apps[i].op = "create_endpoint" /\ apps[i].state = "deployed"}

\* C29: after a successful create_endpoint no earlier deployment of the
\* same name <cr>-endpoint is still running, however many there were and
\* whether or not listing them succeeded.
C29_NoEarlierDeployment ==
    \A i \in RunningDeployments :
        \A j \in 1 .. i - 1 : apps[j].name = apps[i].name => apps[j].state # "deployed"

(***************************************************************************)
(* Properties of the log streamer.                                         *)
(***************************************************************************)
\* the streamer has just read that app id off the status of a sibling CR
ObservedOnSibling ==
    \E kind \in {"ModalJob", "ModalEndpoint"} :
        /\ streamer'.resource_type = kind
        /\ <<kind, SiblingName>> \in DOMAIN crs
        /\ Get(crs[<<kind, SiblingName>>].status, "modal_app_id", 0) = streamer'.app_id

\* what one step of the streamer may do
StreamerMove ==
    /\ streamer'.app_id # streamer.app_id =>
           (streamer'.app_id # 0 /\ ObservedOnSibling)
    /\ (streamer'.pc = "found" /\ streamer.pc # "found") => streamer'.app_id # 0
    /\ streamer'.streamed # streamer.streamed =>
           (streamer.pc = "found" /\ streamer.app_id # 0
              /\ streamer'.streamed = streamer.app_id)
    /\ (streamer.pc = "get_job" /\ streamer'.pc # "get_job") =>
           streamer'.pc \in {"found", "get_endpoint"}
    /\ (streamer.pc = "get_endpoint" /\ streamer'.pc # "get_endpoint") =>
           (streamer'.pc = "found" \/ (streamer'.pc = "sleep" /\ streamer'.delay = PollInterval))
    /\ (streamer.pc = "sleep" /\ streamer'.pc # "sleep") => streamer'.pc = "get_job"

\* C30: the log stream is started only after a non-empty modal_app_id was
\* read off the sibling CR p1-modal (ModalJob or ModalEndpoint), and with
\* exactly that app id; until then the streamer asks for the ModalJob, then
\* for the ModalEndpoint, waits 2 s and starts over, a missing object (404)
\* counting as not yet created.
C30_StreamsObservedApp == [][StreamerMove]_vars

\* the streamer found nothing on the ModalJob, found the app id on the
\* ModalEndpoint and streams its logs
C30_Witness ==
    /\ streamer.pc = "streaming"
    /\ streamer.streamed # 0
    /\ streamer.resource_type = "ModalEndpoint"

\* the process of the streamer is alive
Alive == streamer.pc \notin {"idle", "exited"}

\* C31: once the log streamer has started streaming it never exits: after
\* the log stream ended, at its end or with an error, the process is in the
\* loop of sleeps that ends run, so the logger container does not terminate
\* on its own.
C31_NeverExits ==
    streamer.streamed # 0 =>
        /\ Alive
        /\ streamer.ended = "no" <=> streamer.pc = "streaming"
        /\ streamer.ended # "no" => streamer.pc \in {"completed", "resting"}
        /\ streamer.pc = "resting" => streamer.delay = KeepAlive

\* the log stream ended with an error and the streamer sleeps
C31_Witness ==
    /\ streamer.streamed # 0
    /\ streamer.ended = "error"
    /\ streamer.pc = "resting"


(***************************************************************************)
(* Properties of a create reconcile.                                       *)
(***************************************************************************)
\* the calls of a backend create operation made for the CR with that uid
CreateCalls(remote, uid) == {a \in 1 .. Len(remote) : remote[a].uid = uid}

\* the create handler of the CR `key` ran in this step
CreateRan(key) ==
    /\ key \in DOMAIN crs /\ key \in DOMAIN crs'
    /\ crs'[key].uid = crs[key].uid
    /\ ~crs[key].handled
    /\ crs'[key].handled

\* what a create handler may do, and what may happen after it
CreateCompletes ==
    \A key \in Keys :
        /\ CreateRan(key) =>
              /\ Len(apps') = Len(apps) + 1
              /\ CreateCalls(apps', crs[key].uid) = {Len(apps')}
              /\ key[1] \in {"ModalJob", "ModalEndpoint"} =>
                    /\ ~apps'[Len(apps')].ok =>
                           \/ Get(crs'[key].status, "phase", NONE) = "Failed"
                           \/ crs'[key].status = crs[key].status
                    /\ apps'[Len(apps')].ok =>
                           /\ Get(crs'[key].status, "phase", NONE) # "Failed"
                           /\ \/ Has(crs'[key].status, "modal_app_id")
                              \/ crs'[key].status = crs[key].status
        /\ (key \in DOMAIN crs /\ crs[key].handled /\ key \in DOMAIN crs'
               /\ crs'[key].uid = crs[key].uid) =>
              /\ crs'[key].handled
              /\ CreateCalls(apps', crs[key].uid) = CreateCalls(apps, crs[key].uid)

AtMostOneCreate ==
    \A a, b \in 1 .. Len(apps) : apps[a].uid = apps[b].uid => a = b

\* C32: a create reconcile calls the backend create operation at most once
\* per CR and is not run again: when the backend call fails the handler
\* patches phase Failed and completes, and when the backend call succeeded
\* and the status patch fails the handler completes all the same, the CR is
\* not marked Failed and no second backend create is made.
C32_CreateOnceNoRequeue == [](AtMostOneCreate) /\ [][CreateCompletes]_vars

\* the backend created the job, the status patch failed, the handler is
\* over and the job has since been updated by the user
C32_Witness ==
    \E key \in DOMAIN crs :
        /\ key[1] = "ModalJob"
        /\ crs[key].handled
        /\ \E a \in CreateCalls(apps, crs[key].uid) : apps[a].ok
        /\ ~Has(crs[key].status, "modal_app_id")
        /\ Get(crs[key].spec, "timeout", 0) = UpdatedTimeout


(***************************************************************************)
(* Properties of the pod-watch path.                                       *)
(***************************************************************************)
\* mutated_pod_created saw a 404, built the spec, and its create call is
\* answered with AlreadyExists
MutatedAlreadyExists(p) ==
    /\ p \in DOMAIN pods
    /\ podHandlers[p].mutated = "checked"
    /\ InterceptedSpec(pods[p], WorkloadType(pods[p])).err = NONE
    /\ <<InterceptKind(WorkloadType(pods[p])), ModalName(p)>> \in DOMAIN crs

\* the create call of pod_created is answered with AlreadyExists
LegacyAlreadyExists(p) ==
    /\ p \in DOMAIN pods
    /\ podHandlers[p].legacy = "pending"
    /\ ~AlreadyMutated(Annotations(pods[p]))
    /\ ShouldOffload(pods[p])
    /\ <<"ModalJob", ModalName(p)>> \in DOMAIN crs

IgnoresAlreadyExists ==
    \A p \in PodNames :
        /\ (MutatedAlreadyExists(p) /\ podHandlers'[p] # podHandlers[p]) =>
              /\ podHandlers'[p].mutated = "done"
              /\ podHandlers'[p].attempts = podHandlers[p].attempts
              /\ createLog' = createLog
        /\ (LegacyAlreadyExists(p) /\ podHandlers'[p] # podHandlers[p]) =>
              /\ podHandlers'[p].legacy = "done"
              /\ podHandlers'[p].attempts = podHandlers[p].attempts
              /\ createLog' = createLog

\* C33: AlreadyExists on the creation of <pod>-modal in the pod-watch path
\* is ignored: when the CR appeared between the existence check and the
\* create, the pod handler completes, no error is raised to the framework,
\* the handler is not run again, and no second CR is created.
C33_AlreadyExistsIgnored == [][IgnoresAlreadyExists]_vars


(***************************************************************************)
(* Properties of the metrics collector.                                    *)
(***************************************************************************)
\* the record_job_* calls made for a job, in order
CallsOf(job_name) ==
    LET of == SelectSeq(metrics.calls, LAMBDA c : c[2] = job_name) IN
    [i \in 1 .. Len(of) |-> of[i][1]]

\* a whole lifecycle: as the test records it, and as the operator does,
\* where create_job records the start before create_modal_job records the
\* creation
LifecycleOrders ==
    { <<"queued", "created", "started", "completed">>,
      <<"created", "started", "completed">>,
      <<"started", "created", "completed">> }

\* C34: once the creation, the start and the completion of a job have been
\* recorded, the completion last, its name is in neither _job_start_times
\* nor _job_queue_times, also when the start was recorded before the
\* creation.
C34_BookkeepingCleaned ==
    \A job_name \in JobNames :
        CallsOf(job_name) \in LifecycleOrders =>
            job_name \notin metrics.start_times \cup metrics.queue_times


\* the ModalJobs whose creation has been recorded and whose completion has
\* not, by the label of their gpu
ActiveJobs(label) ==
    {key \in DOMAIN crs :
        /\ key[1] = "ModalJob"
        /\ GpuLabel(GpuType(Get(crs[key].spec, "gpu", NONE))) = label
        /\ \E a \in 1 .. Len(apps) : apps[a].uid = crs[key].uid /\ apps[a].ok}

GpuLabels == {"none", "T4", "A100"}

\* C38: over any sequence of ModalJob create and delete events the
\* active-jobs gauge of every gpu label is not negative and is the number of
\* jobs recorded as created and not yet as completed; the deletion of a
\* ModalJob whose creation failed, or that has no gpu, does not decrement a
\* gauge that was not incremented for it.
C38_ActiveGaugeConsistent ==
    /\ DOMAIN metrics.jobs_active \subseteq GpuLabels
    /\ \A label \in GpuLabels :
          /\ Get(metrics.jobs_active, label, 0) >= 0
          /\ Get(metrics.jobs_active, label, 0) = Cardinality(ActiveJobs(label))


(***************************************************************************)
(* Properties of concurrent proxy connections.                             *)
(***************************************************************************)
\* what the client of a connection asked for, and what the two ends send
Requested(c) ==
    IF c.script = FirstScript
    THEN [host |-> <<10, 0, 0, 7>>, port |-> <<0, 80>>, payload |-> <<71>>,
          answer |-> TargetBytes]
    ELSE [host |-> <<100, 98>>, port |-> <<21, 56>>, payload |-> <<73>>,
          answer |-> SecondTargetBytes]

IsPrefix(a, b) == Len(a) <= Len(b) /\ a = SubSeq(b, 1, Len(a))

Replies == {ReplyNoAuth, ReplyNoMethods, ReplyUnsupported, ReplyRefused, ReplySuccess}

\* the connection c serves its own client and its own target only
OwnTraffic(c) ==
    /\ c.target = "open" => (c.host = Requested(c).host /\ c.port = Requested(c).port)
    /\ IsPrefix(c.toTarget, Requested(c).payload)
    /\ \A i \in 1 .. Len(c.out) : c.out[i] \in Replies \cup {Requested(c).answer}

\* what does hold whatever the segments: the bytes a target got are a run of
\* the bytes its own client sent, in their order, and a client gets replies
\* and the bytes of its own target
OwnBytes(c) ==
    /\ \E i \in 1 .. Len(c.script) + 1 :
          c.toTarget = SubSeq(c.script, i, i + Len(c.toTarget) - 1)
    /\ \A i \in 1 .. Len(c.out) : c.out[i] \in Replies \cup {Requested(c).answer}

\* a step is a turn of the event loop to the other connection, or leaves
\* the connection that is not scheduled as it is
OtherUntouched == (other' = other) \/ (other' = conn /\ conn' = other)

\* C35: with connections served concurrently and their reads and writes
\* interleaved in any way, every byte received from a client is forwarded
\* only to the target this connection requested, every byte of a target
\* goes only to its own client, in the order received, and no step of one
\* connection changes the state of another.
C35_ConnectionsIsolated ==
    [](OwnTraffic(conn) /\ OwnTraffic(other)) /\ [][OtherUntouched]_vars

\* the part of it that does not depend on how the request was parsed
NoCrossTalk == [](OwnBytes(conn) /\ OwnBytes(other)) /\ [][OtherUntouched]_vars


(***************************************************************************)
(* Properties of the SOCKS5 handshake under segmentation.                  *)
(***************************************************************************)
\* the client sends a greeting that offers no-auth and a CONNECT request
\* with an IPv4 address or a domain name
ValidHandshake ==
    /\ conn.script[1] = 5
    /\ 0 \in Offered
    /\ RequestByte(1) = 5 /\ RequestByte(2) = 1 /\ RequestByte(4) \in {1, 3}

\* the host and the port of that request
AskedHost ==
    IF RequestByte(4) = 1 THEN [i \in 1 .. 4 |-> RequestByte(4 + i)]
    ELSE [i \in 1 .. RequestByte(5) |-> RequestByte(5 + i)]

AskedPort ==
    LET at == IF RequestByte(4) = 1 THEN 8 ELSE 5 + RequestByte(5) IN
    <<RequestByte(at + 1), RequestByte(at + 2)>>

\* C37: the outcome of the handshake does not depend on how the bytes of
\* the client are split across reads: a valid greeting and CONNECT request
\* are accepted and parsed to the host and port the client sent, in however
\* many segments they arrive.
C37_SegmentsDoNotMatter ==
    ValidHandshake =>
        /\ (conn.pc = "done" /\ ~conn.cgone) => conn.target # "none"
        /\ conn.pc \in {"connect", "connected", "forward"} =>
              (conn.host = AskedHost /\ conn.port = AskedPort)

(***************************************************************************)
(* Properties of the patch on pods of every shape.                         *)
(***************************************************************************)
\* C36: the JSON patch the mutator returns applies to the pod it was
\* computed from, whatever the shape of that pod: every add or replace
\* targets a location whose parent exists, also in a pod without
\* metadata.annotations, metadata.labels, spec.volumes, dnsPolicy or
\* hostNetwork.
C36_PatchAppliesToEveryShape ==
    Mutating => ApplyPatches(ObjectOf(review.body), review.answer.patch).ok

\* the same for the pods that have an annotations map and a volumes list
FullShape ==
    /\ Has(Get(ObjectOf(review.body), "metadata", <<>>), "annotations")
    /\ Has(Get(ObjectOf(review.body), "spec", <<>>), "volumes")

PatchAppliesToFullShape ==
    (Mutating /\ FullShape) => ApplyPatches(ObjectOf(review.body), review.answer.patch).ok

\* and for the pods that lack only labels, dnsPolicy or hostNetwork
LacksOnlyHandled ==
    /\ Mutating /\ FullShape
    /\ ~Has(ObjectOf(review.body).metadata, "labels")
    /\ ~Has(ObjectOf(review.body).spec, "dnsPolicy")
    /\ ApplyPatches(ObjectOf(review.body), review.answer.patch).ok
(***************************************************************************)
(* Properties of the TrainJob controller.                                  *)
(***************************************************************************)
\* the remote jobs created under a name
RemoteJobsNamed(job_name) ==
    {i \in DOMAIN train.calls : train.calls[i].name = job_name /\ train.calls[i].ok}

\* a TrainJob not configured for Modal causes no remote job creation
SkipsOthers ==
    \A i \in DOMAIN train.calls : ShouldHandleTrainjob(train.calls[i].spec) = "yes"

\* C39: whatever create and update events a TrainJob goes through, at most
\* one remote job named trainjob-<name> is created for it, and none is
\* created for a TrainJob that is not configured for Modal.
C39_AtMostOneRemoteJob ==
    /\ \A n \in TrainJobNames : Cardinality(RemoteJobsNamed(TrainJobName(n))) <= 1
    /\ SkipsOthers

\* the create event alone never leads to a second remote job
OnePerEvent ==
    \A i, j \in DOMAIN train.calls :
        (i < j /\ train.calls[i].ok /\ train.calls[j].ok) => train.calls[j].event = "update"
OnePatchPerReset == sync.patches <= 1 + sync.resets

\* the update events come to an end
CycleEnds == <>[](~sync.update)

====
